---- MODULE Spec2Model ----
(***************************************************************************)
(* Verification model of the Ascend analytics core:                        *)
(*   - AnalyticsDB result cache (app/db.py)                                *)
(*   - BackgroundTaskManager (app/analytics.py)                            *)
(*   - the write path of the API and the cached trend analysis             *)
(*     (app/main.py, app/queries.py, app/analytics.py)                     *)
(***************************************************************************)
EXTENDS Integers, Sequences, FiniteSets, TLC

VARIABLES
    analytics_cache,   \* rows of table analytics_cache
    now,               \* wall clock (UTC), in whole hours since day 00, 00:00
    resp,              \* what the last AnalyticsDB call returned (ok: a bool,
                       \* ret: a row mapping or a row count, count: a row count)
    futures,           \* every Future the executor was given, in submission order
    active_tasks,      \* BackgroundTaskManager.active_tasks: task id -> index in futures (0: absent)
    task_results,      \* BackgroundTaskManager.task_results: task id -> payload ("None": absent)
    lock,              \* BackgroundTaskManager._lock: "free" or the thread holding it
    pc,                \* position of each caller thread inside submit_task
    ret,               \* what each caller thread's last submit_task returned
    taskResp,          \* what the last status / result / cleanup call returned
    foods,             \* rows of table foods
    food_seq,          \* AUTOINCREMENT counter of foods.id
    weights,           \* rows of table weights (written by POST /weights)
    exercise_logs,     \* rows of table exercise_logs
    workouts,          \* rows of table workouts
    bodyweight_log,    \* per user, the rows of bodyweight_log ordered by date
    profile,           \* per user, how many macro days / performance days the store holds
    daily_macros,      \* per user, the macro totals of each day with meals, ordered by date
    performance_metrics, \* per user, the rows of performance_metrics ordered by date
    sweep,             \* the cleanup thread: where it is in its loop, and its last iteration
    prediction_accuracy, \* rows of table prediction_accuracy, in insertion order
    inflight,          \* requests under way: where each one is in its handler, and
                       \* what it has read so far
    req                \* the last request or service call: what it called and returned
                       \* (seq tells two successive identical calls apart)

cacheVars == <<analytics_cache, now, resp>>

taskVars == <<futures, active_tasks, task_results, lock, pc, ret, taskResp>>

rawVars == <<foods, food_seq, weights, exercise_logs, workouts,
             bodyweight_log, profile, daily_macros, performance_metrics, sweep, prediction_accuracy, inflight>>

svcVars == <<foods, food_seq, weights, exercise_logs, workouts,
             bodyweight_log, profile, daily_macros, performance_metrics, sweep, prediction_accuracy, inflight, req>>

vars == <<analytics_cache, now, resp,
          futures, active_tasks, task_results, lock, pc, ret, taskResp,
          foods, food_seq, weights, exercise_logs, workouts,
          bodyweight_log, profile, daily_macros, performance_metrics, sweep, prediction_accuracy, inflight, req>>

----------------------------------------------------------------------------
(* Bounds and input sets                                                   *)

StartHour == 22
MaxNow == 24
MaxRows == 2

Users == {"alice", "bob"}
CacheTypes == {"weight_trends", "macro_patterns"}
Windows == {30, 60}
Payloads == {[trend |-> "up"]}
TtlHours == {1, 24}

NoneVal == [none |-> TRUE]

----------------------------------------------------------------------------
(* Timestamps as text                                                      *)

HoursPerDay == 24

TwoDigits(n) == <<48 + ((n \div 10) % 10), 48 + (n % 10)>>

\* ":00:00" -- the clock has whole-hour resolution in this model
ClockTail == <<58, 48, 48, 58, 48, 48>>

\* datetime.isoformat() of an aware UTC datetime: date 'T' time "+00:00"
isoformat(t) ==
    TwoDigits(t \div HoursPerDay) \o <<84>> \o TwoDigits(t % HoursPerDay)
        \o ClockTail \o <<43, 48, 48, 58, 48, 48>>

\* SQLite CURRENT_TIMESTAMP: date ' ' time, UTC
CURRENT_TIMESTAMP(t) ==
    TwoDigits(t \div HoursPerDay) \o <<32>> \o TwoDigits(t % HoursPerDay)
        \o ClockTail

\* SQLite BINARY collation on TEXT: memcmp, then the shorter one is smaller
RECURSIVE TextCompare(_, _)
TextCompare(a, b) ==
    IF a = <<>> /\ b = <<>> THEN 0
    ELSE IF a = <<>> THEN -1
    ELSE IF b = <<>> THEN 1
    ELSE IF Head(a) < Head(b) THEN -1
    ELSE IF Head(a) > Head(b) THEN 1
    ELSE TextCompare(Tail(a), Tail(b))

\* the instant (in hours) a timestamp text of either format denotes
TextInstant(s) ==
    ((s[1] - 48) * 10 + (s[2] - 48)) * HoursPerDay
        + (s[4] - 48) * 10 + (s[5] - 48)

----------------------------------------------------------------------------
(* JSON                                                                    *)

\* json.dumps of a flat dict: the object's members
json_dumps(d) == {<<k, d[k]>> : k \in DOMAIN d}

\* json.loads: back to a dict
json_loads(s) ==
    [k \in {m[1] : m \in s} |-> (CHOOSE m \in s : m[1] = k)[2]]

----------------------------------------------------------------------------
(* AnalyticsDB: cache                                                      *)

SameKey(r, u, T, w) ==
    r.user_email = u /\ r.analysis_type = T /\ r.time_period = w

\* expires_at of a new row
ExpiresAt(t, cache_hours) == isoformat(t + cache_hours)

\* variant: the comparison of the WHERE clause turned around
NotExpired_Flipped(r, t) == TextCompare(r.expires_at, CURRENT_TIMESTAMP(t)) = -1

\* WHERE expires_at > CURRENT_TIMESTAMP
NotExpired(r, t) == TextCompare(r.expires_at, CURRENT_TIMESTAMP(t)) = 1

\* variant: a plain INSERT, with no UNIQUE conflict to resolve
cache_analysis_result_NoReplace(rows, t, u, T, w, result_data, confidence, cache_hours) ==
    rows \cup
    {[user_email |-> u, analysis_type |-> T, time_period |-> w,
      result_data |-> json_dumps(result_data),
      created_at |-> CURRENT_TIMESTAMP(t),
      expires_at |-> ExpiresAt(t, cache_hours),
      confidence_level |-> confidence]}

\* INSERT OR REPLACE under UNIQUE(user_email, analysis_type, time_period)
cache_analysis_result(rows, t, u, T, w, result_data, confidence, cache_hours) ==
    {r \in rows : ~SameKey(r, u, T, w)} \cup
    {[user_email |-> u, analysis_type |-> T, time_period |-> w,
      result_data |-> json_dumps(result_data),
      created_at |-> CURRENT_TIMESTAMP(t),
      expires_at |-> ExpiresAt(t, cache_hours),
      confidence_level |-> confidence]}

get_cached_analysis(rows, t, u, T, w) ==
    LET hit == {r \in rows : SameKey(r, u, T, w) /\ NotExpired(r, t)}
    IN  IF hit = {} THEN NoneVal
        ELSE LET row == CHOOSE r \in hit : TRUE
             IN  [none |-> FALSE,
                  result_data |-> json_loads(row.result_data),
                  confidence_level |-> row.confidence_level,
                  cached_at |-> row.created_at]

\* rows deleted by DELETE ... WHERE expires_at <= CURRENT_TIMESTAMP
ExpiredRows(rows, t) ==
    {r \in rows : TextCompare(r.expires_at, CURRENT_TIMESTAMP(t)) # 1}

clear_expired_cache(rows, t) == rows \ ExpiredRows(rows, t)

\* analysis_types is None ([given |-> FALSE]) or a list of names
NoTypes == [given |-> FALSE, types |-> {}]
TypeList(S) == [given |-> TRUE, types |-> S]

\* variant: `if analysis_types is not None:`
Truthy_NotNone(analysis_types) == analysis_types.given

\* `if analysis_types:` -- None and the empty list are both falsy
Truthy(analysis_types) == analysis_types.given /\ analysis_types.types # {}

\* variant: the DELETE without its `analysis_type IN (...)` restriction
InvalidatedRows_AnyType(rows, u, analysis_types) ==
    {r \in rows : r.user_email = u}

\* rows matched by the DELETE of invalidate_user_cache
InvalidatedRows(rows, u, analysis_types) ==
    IF Truthy(analysis_types)
    THEN {r \in rows : r.user_email = u /\ r.analysis_type \in analysis_types.types}
    ELSE {r \in rows : r.user_email = u}

invalidate_user_cache(rows, u, analysis_types) ==
    rows \ InvalidatedRows(rows, u, analysis_types)

----------------------------------------------------------------------------
(* BackgroundTaskManager                                                   *)

MaxFutures == 2
max_workers == 2

TaskIds == {"A", "B"}
Threads == {"t1", "t2"}
TaskPayloads == {"r1", "r2"}
ErrorMessages == {"boom"}

\* a Future: PENDING (queued), RUNNING (a worker executes the function),
\* FINISHED with a result ("ok") or with an exception ("exc")
NewFuture(id) ==
    [task_id |-> id, state |-> "pending", outcome |-> "none", value |-> "None"]

Done(f) == f.state = "done"

FutureIndexes == 1..Len(futures)

RunningCount == Cardinality({i \in FutureIndexes : futures[i].state = "running"})

Pending == {i \in FutureIndexes : futures[i].state = "pending"}

\* `task_id in self.active_tasks and not self.active_tasks[task_id].done()`
AlreadyRunning(id) ==
    active_tasks[id] # 0 /\ ~Done(futures[active_tasks[id]])

\* variant: submit_task without `with self._lock`
LockAvailable_NoLock(t) == TRUE

\* `with self._lock:` can be entered by thread t
LockAvailable(t) == lock = "free"

\* variant: get_task_status without the `if future.exception()` branch
get_task_status_NoExcBranch(id) ==
    IF active_tasks[id] = 0 THEN [status |-> "not_found"]
    ELSE LET future == futures[active_tasks[id]]
         IN  IF Done(future)
             THEN [status |-> "completed", result |-> future.value]
             ELSE [status |-> "running"]

\* get_task_status: the mapping it returns
get_task_status(id) ==
    IF active_tasks[id] = 0 THEN [status |-> "not_found"]
    ELSE LET future == futures[active_tasks[id]]
         IN  IF Done(future)
             THEN IF future.outcome = "exc"
                  THEN [status |-> "error", error |-> future.value]
                  ELSE [status |-> "completed", result |-> future.value]
             ELSE [status |-> "running"]

\* get_task_result: self.task_results.get(task_id)
get_task_result(id) == task_results[id]

\* variant: the sweep without its `if future.done()` filter
completed_tasks_NoDoneFilter ==
    {id \in TaskIds : active_tasks[id] # 0}

\* the ids cleanup_completed_tasks deletes from active_tasks
completed_tasks ==
    {id \in TaskIds : active_tasks[id] # 0 /\ Done(futures[active_tasks[id]])}

\* submit_task, entering `with self._lock`
SubmitAcquire(t, id) ==
    /\ pc[t].at = "idle"
    /\ Len(futures) + Cardinality({x \in Threads : pc[x].at # "idle"}) < MaxFutures
    /\ LockAvailable(t)
    /\ lock' = t
    /\ pc' = [pc EXCEPT ![t] = [at |-> "check", id |-> id]]
    /\ UNCHANGED <<futures, active_tasks, task_results, ret, taskResp, cacheVars, svcVars>>

\* submit_task, the admission test
SubmitCheck(t) ==
    /\ pc[t].at = "check"
    /\ IF AlreadyRunning(pc[t].id)
       THEN /\ ret' = [ret EXCEPT ![t] = [id |-> pc[t].id, val |-> "False"]]
            /\ pc' = [pc EXCEPT ![t] = [at |-> "idle", id |-> pc[t].id]]
            /\ lock' = "free"
       ELSE /\ pc' = [pc EXCEPT ![t] = [at |-> "insert", id |-> pc[t].id]]
            /\ UNCHANGED <<ret, lock>>
    /\ UNCHANGED <<futures, active_tasks, task_results, taskResp, cacheVars, svcVars>>

\* submit_task, executor.submit and the registration of the future
SubmitInsert(t) ==
    /\ pc[t].at = "insert"
    /\ futures' = Append(futures, NewFuture(pc[t].id))
    /\ active_tasks' = [active_tasks EXCEPT ![pc[t].id] = Len(futures) + 1]
    /\ ret' = [ret EXCEPT ![t] = [id |-> pc[t].id, val |-> "True"]]
    /\ pc' = [pc EXCEPT ![t] = [at |-> "idle", id |-> pc[t].id]]
    /\ lock' = "free"
    /\ UNCHANGED <<task_results, taskResp, cacheVars, svcVars>>

\* an idle worker of the pool takes the oldest queued future
WorkerStart ==
    /\ Pending # {}
    /\ RunningCount < max_workers
    /\ LET i == CHOOSE j \in Pending : \A k \in Pending : j <= k
       IN  futures' = [futures EXCEPT ![i].state = "running"]
    /\ UNCHANGED <<active_tasks, task_results, lock, pc, ret, taskResp, cacheVars, svcVars>>

\* the function of future i returns r
TaskReturn(i, r) ==
    /\ futures[i].state = "running"
    /\ futures' = [futures EXCEPT ![i] =
                      [@ EXCEPT !.state = "done", !.outcome = "ok", !.value = r]]
    /\ UNCHANGED <<active_tasks, task_results, lock, pc, ret, taskResp, cacheVars, svcVars>>

\* the function of future i raises an exception with message m
TaskRaise(i, m) ==
    /\ futures[i].state = "running"
    /\ futures' = [futures EXCEPT ![i] =
                      [@ EXCEPT !.state = "done", !.outcome = "exc", !.value = m]]
    /\ UNCHANGED <<active_tasks, task_results, lock, pc, ret, taskResp, cacheVars, svcVars>>

GetTaskStatus(id) ==
    /\ lock = "free"
    /\ taskResp' = [op |-> "status", id |-> id, ret |-> get_task_status(id)]
    /\ task_results' =
          IF get_task_status(id).status = "completed"
          THEN [task_results EXCEPT ![id] = get_task_status(id).result]
          ELSE task_results
    /\ UNCHANGED <<futures, active_tasks, lock, pc, ret, cacheVars, svcVars>>

GetTaskResult(id) ==
    /\ lock = "free"
    /\ taskResp' = [op |-> "result", id |-> id, value |-> get_task_result(id)]
    /\ UNCHANGED <<futures, active_tasks, task_results, lock, pc, ret, cacheVars, svcVars>>

CleanupCompletedTasks ==
    /\ lock = "free"
    /\ active_tasks' = [id \in TaskIds |->
                           IF id \in completed_tasks THEN 0 ELSE active_tasks[id]]
    /\ taskResp' = [op |-> "cleanup", removed |-> completed_tasks]
    /\ UNCHANGED <<futures, task_results, lock, pc, ret, cacheVars, svcVars>>

\* the cleanup thread right after AnalyticsService.__init__ started it
SweepStart == [at |-> "purge", wait |-> 0, expired_count |-> 0, last |-> "none"]

\* the request threads of the API server
Callers == {"c1", "c2"}

\* a request thread between two requests
IdleCall == [at |-> "idle", user |-> "alice", days |-> 0, data |-> <<>>, after_write |-> FALSE]

\* no request is under way
NoRequests ==
    [writer |-> [at |-> "idle", user |-> "alice", date |-> 0],
     calls |-> [c \in Callers |-> IdleCall]]

InitTaskVars ==
    /\ sweep = SweepStart
    /\ inflight = NoRequests
    /\ futures = <<>>
    /\ active_tasks = [id \in TaskIds |-> 0]
    /\ task_results = [id \in TaskIds |-> "None"]
    /\ lock = "free"
    /\ pc = [t \in Threads |-> [at |-> "idle", id |-> "A"]]
    /\ ret = [t \in Threads |-> [id |-> "A", val |-> "-"]]
    /\ taskResp = [op |-> "none"]

----------------------------------------------------------------------------
(* Raw data of the store                                                   *)

MaxWrites == 1
MaxPoints == 8
MaxDay == 2

Shapes == {"flat", "rising", "zigzag"}
EndDays == {0, 0 - 25}

WeightAt(shape, i) ==
    IF shape = "flat" THEN 70
    ELSE IF shape = "rising" THEN 70 + i
    ELSE 70 + (i % 2)

\* n weigh-ins on consecutive days, the last one on day endDay
MkSeries(n, shape, endDay) ==
    [i \in 1..n |-> [date |-> endDay - n + i, value |-> WeightAt(shape, i)]]

SeriesChoices ==
    {<<>>} \cup {MkSeries(n, sh, e) :
                    n \in (MaxPoints - 2)..MaxPoints, sh \in Shapes, e \in EndDays}

DefaultLog == [u \in Users |-> MkSeries(7, "rising", 0)]

DataProfiles ==
    {[macro_days |-> 21, performance_days |-> 21],
     [macro_days |-> 20, performance_days |-> 9]}

FoodInputs == {[name |-> "oats", calories |-> 150]}
WeightInputs == {[date |-> 0, weight |-> 71]}
LogInputs == {[workout_id |-> 1, exercise_id |-> 1, set_number |-> 1, reps |-> 5, weight |-> 100]}
WorkoutInputs == {[date |-> 0, name |-> "push"]}
BackgroundDays == {90}

Today(t) == t \div HoursPerDay

WritesSoFar == food_seq + Len(weights) + Len(exercise_logs) + Len(workouts)

----------------------------------------------------------------------------
(* Statistics on exact fractions <<numerator, denominator>>                *)

Abs(x) == IF x < 0 THEN 0 - x ELSE x

RECURSIVE GCD(_, _)
GCD(a, b) == IF b = 0 THEN a ELSE GCD(b, a % b)

\* a / b in lowest terms, b # 0
Frac(a, b) ==
    LET g == GCD(Abs(a), Abs(b))
    IN  IF b < 0 THEN <<(0 - a) \div g, (0 - b) \div g>> ELSE <<a \div g, b \div g>>

RECURSIVE SeqSum(_)
SeqSum(s) == IF s = <<>> THEN 0 ELSE Head(s) + SeqSum(Tail(s))

\* days between each point and the first one
DaysDiff(data_points) ==
    [i \in 1..Len(data_points) |-> data_points[i].date - data_points[1].date]

_calculate_linear_slope(data_points) ==
    IF Len(data_points) < 2 THEN <<0, 1>>
    ELSE LET x == DaysDiff(data_points)
             y == [i \in 1..Len(data_points) |-> data_points[i].value]
             n == Len(x)
             sum_x == SeqSum(x)
             sum_y == SeqSum(y)
             sum_xy == SeqSum([i \in 1..n |-> x[i] * y[i]])
             sum_x_squared == SeqSum([i \in 1..n |-> x[i] * x[i]])
             denominator == n * sum_x_squared - sum_x * sum_x
         IN  IF denominator = 0 THEN <<0, 1>>
             ELSE Frac(n * sum_xy - sum_x * sum_y, denominator)

\* threshold 0.01: |rate| <= 1/100
_determine_trend_direction(rate_of_change) ==
    IF 100 * Abs(rate_of_change[1]) <= rate_of_change[2] THEN "stable"
    ELSE IF rate_of_change[1] > 0 THEN "increasing"
    ELSE "decreasing"

\* R^2 of the line through the first point with the given slope, scaled by
\* min(1, n / 14)
_calculate_trend_confidence(data_points, rate_of_change) ==
    IF Len(data_points) < 3 THEN <<0, 1>>
    ELSE LET x == DaysDiff(data_points)
             y == [i \in 1..Len(data_points) |-> data_points[i].value]
             n == Len(x)
             N == rate_of_change[1]
             D == rate_of_change[2]
             \* ss_res = res / D^2, ss_tot = tot / n^2
             res == SeqSum([i \in 1..n |->
                        (D * (y[i] - y[1]) - N * x[i]) * (D * (y[i] - y[1]) - N * x[i])])
             tot == SeqSum([i \in 1..n |->
                        (n * y[i] - SeqSum(y)) * (n * y[i] - SeqSum(y))])
             r2num == D * D * tot - res * n * n
             r2den == D * D * tot
             factor == IF n < 14 THEN n ELSE 14
         IN  IF tot = 0 THEN (IF res = 0 THEN <<1, 1>> ELSE <<0, 1>>)
             ELSE IF r2num < 0 THEN <<0, 1>>
             ELSE Frac(r2num * factor, r2den * 14)

----------------------------------------------------------------------------
(* AnalyticsService: weight trend                                          *)

MinTrendPoints == 7
DefaultCacheHours == 24

\* variant: the SELECT without its date restriction
_get_weight_data_AllDates(u, days, t) == bodyweight_log[u]

\* SELECT ... WHERE bw.date >= date('now', '-N days') ORDER BY bw.date
_get_weight_data(u, days, t) ==
    SelectSeq(bodyweight_log[u], LAMBDA p : p.date >= Today(t) - days)

\* TrendAnalysis(**d): the model object built from a dict
TrendAnalysis(d) ==
    [metric_name |-> d.metric_name, time_period |-> d.time_period,
     trend_direction |-> d.trend_direction, rate_of_change |-> d.rate_of_change,
     confidence_level |-> d.confidence_level, data_points |-> d.data_points,
     start_date |-> d.start_date, end_date |-> d.end_date]

Call(fn, u) == [fn |-> fn, user |-> u]

NoReport == [none |-> TRUE]
Report(r) == [none |-> FALSE, report |-> r]

\* the TrendAnalysis that calculate_weight_trends builds from the series it
\* fetched (at least 7 points)
weight_trend_result(weight_data, days) ==
    LET rate_of_change == _calculate_linear_slope(weight_data)
        confidence_level == _calculate_trend_confidence(weight_data, rate_of_change)
    IN  [metric_name |-> "body_weight",
         time_period |-> days,
         trend_direction |-> _determine_trend_direction(rate_of_change),
         rate_of_change |-> rate_of_change,
         confidence_level |-> confidence_level,
         data_points |-> Len(weight_data),
         start_date |-> weight_data[1].date,
         end_date |-> weight_data[Len(weight_data)].date]

\* what calculate_weight_trends returns, which functions it calls, and the
\* cache it leaves behind
calculate_weight_trends(rows, t, u, days) ==
    LET cached_result == get_cached_analysis(rows, t, u, "weight_trends", days)
    IN  IF ~cached_result.none
        THEN [ret |-> Report(TrendAnalysis(cached_result.result_data)),
              calls |-> <<Call("get_cached_analysis", u)>>,
              cache |-> rows]
        ELSE
        LET weight_data == _get_weight_data(u, days, t)
        IN  IF Len(weight_data) < MinTrendPoints
            THEN [ret |-> NoReport,
                  calls |-> <<Call("get_cached_analysis", u), Call("_get_weight_data", u)>>,
                  cache |-> rows]
            ELSE
            LET result == weight_trend_result(weight_data, days)
                confidence_level == result.confidence_level
            IN  [ret |-> Report(result),
                 calls |-> <<Call("get_cached_analysis", u), Call("_get_weight_data", u),
                             Call("cache_analysis_result", u)>>,
                 cache |-> cache_analysis_result(rows, t, u, "weight_trends", days,
                                                 result, confidence_level,
                                                 DefaultCacheHours)]

CalculateWeightTrends(u, days) ==
    LET out == calculate_weight_trends(analytics_cache, now, u, days)
    IN  /\ analytics_cache' = out.cache
        /\ req' = [op |-> "calculate_weight_trends", seq |-> 1 - req.seq, user |-> u, days |-> days,
                   ret |-> out.ret, calls |-> out.calls]
        /\ UNCHANGED <<now, resp, rawVars, taskVars>>

----------------------------------------------------------------------------
(* AnalyticsService: background analyses that store their result           *)

\* _performance_modeling_analysis: always stores its result (each part is
\* the part's analysis, or its insufficient-data answer below 10 days)
PerformanceModelingAnalysis(u, days) ==
    /\ Cardinality(cache_analysis_result(analytics_cache, now, u, "performance_modeling",
                                         days, [k |-> "v"], 85, 48)) <= MaxRows
    /\ analytics_cache' =
          cache_analysis_result(analytics_cache, now, u, "performance_modeling", days,
              [performance_trends |->
                   IF profile[u].performance_days < 10 THEN "insufficient_data" ELSE "trends",
               optimal_conditions |->
                   IF profile[u].performance_days < 10 \/ profile[u].macro_days < 10
                   THEN "insufficient_data" ELSE "conditions",
               performance_predictions |->
                   IF profile[u].performance_days < 10 THEN "insufficient_data"
                   ELSE "predictions",
               intervention_analysis |-> "placeholder"],
              85, 48)
    /\ req' = [op |-> "_performance_modeling_analysis", seq |-> 1 - req.seq, user |-> u, days |-> days,
               calls |-> <<Call("cache_analysis_result", u)>>]
    /\ UNCHANGED <<now, resp, rawVars, taskVars>>

\* _comprehensive_correlation_analysis: stores its result unless one of the
\* series has fewer than 21 days
ComprehensiveCorrelationAnalysis(u, days) ==
    /\ Cardinality(cache_analysis_result(analytics_cache, now, u, "comprehensive_correlation",
                                         days, [k |-> "v"], 80, 48)) <= MaxRows
    /\ IF profile[u].macro_days < 21 \/ profile[u].performance_days < 21
       THEN /\ req' = [op |-> "_comprehensive_correlation_analysis", seq |-> 1 - req.seq, user |-> u,
                       days |-> days, calls |-> <<>>]
            /\ UNCHANGED analytics_cache
       ELSE /\ analytics_cache' =
                  cache_analysis_result(analytics_cache, now, u, "comprehensive_correlation",
                      days, [short_term |-> "correlations", long_term |-> "correlations"],
                      80, 48)
            /\ req' = [op |-> "_comprehensive_correlation_analysis", seq |-> 1 - req.seq, user |-> u,
                       days |-> days,
                       calls |-> <<Call("cache_analysis_result", u)>>]
    /\ UNCHANGED <<now, resp, rawVars, taskVars>>

----------------------------------------------------------------------------
(* The write path (app/main.py, app/queries.py)                            *)

\* the analysis types each write request passes to invalidate_user_cache
FoodInvalidates == {"macro_patterns"}
WeightInvalidates == {"weight_trends", "macro_patterns"}
PerformanceInvalidates == {"performance_predictions", "correlations"}

create_food(food, u) ==
    /\ WritesSoFar < MaxWrites
    /\ foods' = foods \cup {[id |-> food_seq + 1, user_email |-> u,
                             name |-> food.name, calories |-> food.calories,
                             date |-> Today(now)]}
    /\ food_seq' = food_seq + 1
    /\ analytics_cache' = invalidate_user_cache(analytics_cache, u, TypeList(FoodInvalidates))
    /\ req' = [op |-> "create_food", seq |-> 1 - req.seq, user |-> u,
               calls |-> <<Call("insert_food", u), Call("invalidate_user_cache", u)>>]
    /\ UNCHANGED <<weights, exercise_logs, workouts, bodyweight_log, profile,
                   daily_macros, performance_metrics, sweep, prediction_accuracy, inflight, now, resp, taskVars>>

delete_food(food_id, u) ==
    /\ foods' = {f \in foods : ~(f.id = food_id /\ f.user_email = u)}
    /\ req' = [op |-> "delete_food", seq |-> 1 - req.seq, user |-> u,
               calls |-> <<Call("delete_food", u)>>]
    /\ UNCHANGED <<food_seq, weights, exercise_logs, workouts, bodyweight_log, profile,
                   daily_macros, performance_metrics, sweep, prediction_accuracy, inflight, cacheVars, taskVars>>

add_weight(entry, u) ==
    /\ WritesSoFar < MaxWrites
    /\ weights' = Append(weights, [user_email |-> u, date |-> entry.date,
                                   weight |-> entry.weight])
    /\ analytics_cache' = invalidate_user_cache(analytics_cache, u, TypeList(WeightInvalidates))
    /\ req' = [op |-> "add_weight", seq |-> 1 - req.seq, user |-> u,
               calls |-> <<Call("insert_weight", u), Call("invalidate_user_cache", u)>>]
    /\ UNCHANGED <<foods, food_seq, exercise_logs, workouts, bodyweight_log, profile,
                   daily_macros, performance_metrics, sweep, prediction_accuracy, inflight, now, resp, taskVars>>

create_exercise_log(log, u) ==
    /\ WritesSoFar < MaxWrites
    /\ exercise_logs' = Append(exercise_logs, log)
    /\ analytics_cache' =
          invalidate_user_cache(analytics_cache, u, TypeList(PerformanceInvalidates))
    /\ req' = [op |-> "create_exercise_log", seq |-> 1 - req.seq, user |-> u,
               calls |-> <<Call("insert_exercise_log", u), Call("invalidate_user_cache", u)>>]
    /\ UNCHANGED <<foods, food_seq, weights, workouts, bodyweight_log, profile,
                   daily_macros, performance_metrics, sweep, prediction_accuracy, inflight, now, resp, taskVars>>

create_workout(workout, u) ==
    /\ WritesSoFar < MaxWrites
    /\ workouts' = Append(workouts, [user_email |-> u, date |-> workout.date,
                                     name |-> workout.name])
    /\ analytics_cache' =
          invalidate_user_cache(analytics_cache, u, TypeList(PerformanceInvalidates))
    /\ req' = [op |-> "create_workout", seq |-> 1 - req.seq, user |-> u,
               calls |-> <<Call("insert_workout", u), Call("invalidate_user_cache", u)>>]
    /\ UNCHANGED <<foods, food_seq, weights, exercise_logs, bodyweight_log, profile,
                   daily_macros, performance_metrics, sweep, prediction_accuracy, inflight, now, resp, taskVars>>

\* a day passes
AdvanceDay ==
    /\ Today(now) < MaxDay
    /\ now' = now + HoursPerDay
    /\ req' = [op |-> "advance_day", seq |-> 1 - req.seq]
    /\ UNCHANGED <<analytics_cache, resp, rawVars, taskVars>>

InitTables ==
    /\ foods = {}
    /\ food_seq = 0
    /\ weights = <<>>
    /\ exercise_logs = <<>>
    /\ workouts = <<>>
    /\ prediction_accuracy = <<>>

InitWriteTables ==
    /\ InitTables
    /\ req = [op |-> "none", seq |-> 0]

InitRawTables ==
    /\ InitWriteTables
    /\ daily_macros = [u \in Users |-> <<>>]
    /\ performance_metrics = [u \in Users |-> <<>>]

InitSvcVars ==
    /\ InitRawTables
    /\ bodyweight_log = DefaultLog
    /\ profile = [u \in Users |-> [macro_days |-> 21, performance_days |-> 21]]

----------------------------------------------------------------------------
(* Cache API steps                                                         *)

CachePut(u, T, w, d, c, h) ==
    /\ Cardinality(cache_analysis_result(analytics_cache, now, u, T, w, d, c, h)) <= MaxRows
    /\ analytics_cache' = cache_analysis_result(analytics_cache, now, u, T, w, d, c, h)
    /\ resp' = [op |-> "put", ok |-> TRUE]
    /\ UNCHANGED <<now, taskVars, svcVars>>

CacheGet(u, T, w) ==
    /\ resp' = [op |-> "get", ret |-> get_cached_analysis(analytics_cache, now, u, T, w)]
    /\ UNCHANGED <<analytics_cache, now, taskVars, svcVars>>

CacheInvalidate(u, at) ==
    /\ analytics_cache' = invalidate_user_cache(analytics_cache, u, at)
    /\ resp' = [op |-> "invalidate", user |-> u, types |-> at,
                ret |-> Cardinality(InvalidatedRows(analytics_cache, u, at))]
    /\ UNCHANGED <<now, taskVars, svcVars>>

CacheClearExpired ==
    /\ analytics_cache' = clear_expired_cache(analytics_cache, now)
    /\ resp' = [op |-> "clear_expired",
                count |-> Cardinality(ExpiredRows(analytics_cache, now))]
    /\ UNCHANGED <<now, taskVars, svcVars>>

Tick ==
    /\ now < MaxNow
    /\ now' = now + 1
    /\ UNCHANGED <<analytics_cache, resp, taskVars, svcVars>>

InitCacheVars ==
    /\ analytics_cache = {}
    /\ now = StartHour
    /\ resp = [op |-> "none"]

InitCache == InitCacheVars /\ InitTaskVars /\ InitSvcVars

NextCache ==
    \/ \E u \in Users, T \in CacheTypes, w \in Windows, d \in Payloads, h \in TtlHours :
          CachePut(u, T, w, d, 50, h)
    \/ \E u \in Users, T \in CacheTypes, w \in Windows : CacheGet(u, T, w)
    \/ \E u \in Users, S \in SUBSET CacheTypes : CacheInvalidate(u, TypeList(S))
    \/ \E u \in Users : CacheInvalidate(u, NoTypes)
    \/ CacheClearExpired
    \/ Tick

SpecCache == InitCache /\ [][NextCache]_vars

----------------------------------------------------------------------------
(* The task manager under concurrent callers, two pool workers and the     *)
(* cleanup sweep                                                           *)

InitTasks == InitCacheVars /\ InitTaskVars /\ InitSvcVars

NextTasks ==
    \/ \E t \in Threads, id \in TaskIds : SubmitAcquire(t, id)
    \/ \E t \in Threads : SubmitCheck(t)
    \/ \E t \in Threads : SubmitInsert(t)
    \/ WorkerStart
    \/ \E i \in FutureIndexes, r \in TaskPayloads : TaskReturn(i, r)
    \/ \E i \in FutureIndexes, m \in ErrorMessages : TaskRaise(i, m)
    \/ \E id \in TaskIds : GetTaskStatus(id)
    \/ \E id \in TaskIds : GetTaskResult(id)
    \/ CleanupCompletedTasks

SpecTasks == InitTasks /\ [][NextTasks]_vars

----------------------------------------------------------------------------
(* The write path of the API against the cache filled by the background    *)
(* analyses                                                                *)

InitWrites ==
    /\ InitCacheVars /\ InitTaskVars /\ InitRawTables
    /\ bodyweight_log = DefaultLog
    /\ profile \in [Users -> DataProfiles]

NextWrites ==
    \/ \E u \in Users, f \in FoodInputs : create_food(f, u)
    \/ \E u \in Users, id \in 1..MaxWrites : delete_food(id, u)
    \/ \E u \in Users, e \in WeightInputs : add_weight(e, u)
    \/ \E u \in Users, l \in LogInputs : create_exercise_log(l, u)
    \/ \E u \in Users, w \in WorkoutInputs : create_workout(w, u)
    \/ \E u \in Users, d \in BackgroundDays : PerformanceModelingAnalysis(u, d)
    \/ \E u \in Users, d \in BackgroundDays : ComprehensiveCorrelationAnalysis(u, d)

SpecWrites == InitWrites /\ [][NextWrites]_vars

----------------------------------------------------------------------------
(* The cached weight trend over the days, with weigh-ins posted            *)

InitTrends ==
    /\ InitCacheVars /\ InitTaskVars /\ InitRawTables
    /\ \E s \in SeriesChoices :
          bodyweight_log = [u \in Users |-> IF u = "alice" THEN s ELSE <<>>]
    /\ profile = [u \in Users |-> [macro_days |-> 21, performance_days |-> 21]]

NextTrends ==
    \/ \E u \in Users, w \in Windows : CalculateWeightTrends(u, w)
    \/ \E u \in Users, e \in WeightInputs : add_weight(e, u)
    \/ AdvanceDay

SpecTrends == InitTrends /\ [][NextTrends]_vars

----------------------------------------------------------------------------
(* Properties of the result cache (SpecCache)                              *)

NonEmptyTypeSets == (SUBSET CacheTypes) \ {{}}

\* C1: after invalidate(U, S) with S non-empty, get(U, T, w) is a miss for
\* every T in S and every window w, and every row of another user or of a
\* type outside S is still there, unchanged; no row is added.
C1_InvalidateFrame ==
    [][\A u \in Users, S \in NonEmptyTypeSets :
          CacheInvalidate(u, TypeList(S)) =>
             /\ \A T \in S, w \in Windows :
                   get_cached_analysis(analytics_cache', now', u, T, w) = NoneVal
             /\ \A r \in analytics_cache :
                   (r.user_email # u \/ r.analysis_type \notin S)
                       => r \in analytics_cache'
             /\ analytics_cache' \subseteq analytics_cache]_vars

\* an invalidation with a non-empty type list deleted a row and left
\* another row of the same user in place
C1_Witness ==
    /\ resp.op = "invalidate"
    /\ Truthy(resp.types)
    /\ resp.ret >= 1
    /\ \E r \in analytics_cache : r.user_email = resp.user

\* C3: get never returns a row at or after its expiry instant: whenever
\* get(user, type, window) is a hit, the clock is strictly before the instant
\* the row's expires_at denotes (put time + ttl hours).
C3_NoHitAtOrAfterExpiry ==
    \A r \in analytics_cache :
        get_cached_analysis(analytics_cache, now, r.user_email,
                            r.analysis_type, r.time_period) # NoneVal
            => now < TextInstant(r.expires_at)

----------------------------------------------------------------------------
(* Properties of the task manager (SpecTasks)                              *)

FuturesOf(id) == {i \in FutureIndexes : futures[i].task_id = id}

Unfinished(id) == {i \in FuturesOf(id) : ~Done(futures[i])}

LatestFuture(id) ==
    IF FuturesOf(id) = {} THEN 0
    ELSE CHOOSE i \in FuturesOf(id) : \A j \in FuturesOf(id) : j <= i

FinishedOk(id) ==
    /\ LatestFuture(id) # 0
    /\ Done(futures[LatestFuture(id)])
    /\ futures[LatestFuture(id)].outcome = "ok"

\* a step that hands a new future for id to the executor: an accepted submit
NewRun(id) ==
    /\ Len(futures') = Len(futures) + 1
    /\ futures'[Len(futures')].task_id = id

\* C2: under every interleaving of concurrent submit_task calls an id has at
\* most one future that has not finished (the function is never started
\* twice for a still-running id), so of two calls racing on a fresh id only
\* one returns True; and a call returns False only if a task with that id was
\* submitted before.
C2_AdmissionControl ==
    /\ \A id \in TaskIds : Cardinality(Unfinished(id)) <= 1
    /\ \A t \in Threads :
          ret[t].val = "False" => FuturesOf(ret[t].id) # {}
    /\ \A t1, t2 \in Threads :
          (/\ t1 # t2
           /\ ret[t1].id = ret[t2].id
           /\ ret[t1].val = "True" /\ ret[t2].val = "True")
              => Cardinality(FuturesOf(ret[t1].id)) >= 2

\* two threads submitted the same id, one got True and the other False, and
\* the accepted task has not finished
C2_Witness ==
    \E t1, t2 \in Threads :
        /\ t1 # t2
        /\ pc[t1].at = "idle" /\ pc[t2].at = "idle"
        /\ ret[t1].id = ret[t2].id
        /\ ret[t1].val = "True" /\ ret[t2].val = "False"
        /\ Cardinality(FuturesOf(ret[t1].id)) = 1
        /\ Unfinished(ret[t1].id) # {}

\* C4: once the function of an accepted task has returned successfully,
\* get_task_result(id) returns that function's payload (whether or not
\* get_task_status was called).
C4_ResultAfterCompletion ==
    \A id \in TaskIds :
        FinishedOk(id) => get_task_result(id) = futures[LatestFuture(id)].value

\* C5: the sweep loses no result: for every task that finished successfully
\* before cleanup_completed_tasks ran, get_task_result returns its payload
\* after the sweep.
C5_SweepKeepsResults ==
    [][CleanupCompletedTasks =>
          \A id \in TaskIds :
              FinishedOk(id) =>
                  get_task_result(id)' = futures[LatestFuture(id)].value]_vars

\* C6 as stated: once get_task_status(id) has reported completed or error,
\* no submit_task for that id is accepted (the id runs at most once).
C6_NoRerunAfterFinalStatus ==
    [][\A id \in TaskIds :
          (/\ taskResp.op = "status"
           /\ taskResp.id = id
           /\ taskResp.ret.status \in {"completed", "error"})
              => ~NewRun(id)]_vars

\* C6 amended: an id has one run at a time.  A finished future never changes;
\* a running id keeps reporting running until it reports completed or error;
\* a submit is accepted only for an id that is not running; and the status of
\* an id goes from completed / error back to running only by an accepted
\* submit of the same id.
C6_OneRunAtATime ==
    [][\A id \in TaskIds :
          /\ (/\ get_task_status(id).status \in {"completed", "error"}
              /\ get_task_status(id)'.status = "running") => NewRun(id)
          /\ get_task_status(id).status = "running"
                => get_task_status(id)'.status \in {"running", "completed", "error"}
          /\ NewRun(id) => ~AlreadyRunning(id)
          /\ \A i \in FuturesOf(id) : Done(futures[i]) => futures'[i] = futures[i]]_vars

\* an id that finished was submitted again under the same id and is running
C6_Witness ==
    \E id \in TaskIds :
        /\ Cardinality(FuturesOf(id)) >= 2
        /\ get_task_status(id).status = "running"
        /\ \E t \in Threads : ret[t] = [id |-> id, val |-> "True"]

\* C10: when the function of a task raises, get_task_status of its id
\* reports error with the exception's message; status and result of every
\* other id are unchanged; the worker is free again; and a submit for an id
\* that is not running is accepted whatever failed before.
C10_ErrorIsolation ==
    [][/\ \A i \in FutureIndexes, m \in ErrorMessages :
             TaskRaise(i, m) =>
                /\ get_task_status(futures[i].task_id)'
                      = [status |-> "error", error |-> m]
                /\ \A j \in TaskIds \ {futures[i].task_id} :
                      /\ get_task_status(j)' = get_task_status(j)
                      /\ get_task_result(j)' = get_task_result(j)
                /\ RunningCount' = RunningCount - 1
       /\ \A t \in Threads :
             (SubmitCheck(t) /\ ~AlreadyRunning(pc[t].id)) => pc'[t].at = "insert"
       /\ \A t \in Threads :
             SubmitInsert(t) => (ret'[t].val = "True" /\ NewRun(pc[t].id))]_vars

\* a task failed, the poll reported its error, and a task with another id
\* submitted later was started by a worker
C10_Witness ==
    \E i \in FutureIndexes :
        /\ futures[i].outcome = "exc"
        /\ taskResp.op = "status"
        /\ taskResp.id = futures[i].task_id
        /\ taskResp.ret.status = "error"
        /\ taskResp.ret.error = futures[i].value
        /\ \E j \in FutureIndexes :
              /\ j > i
              /\ futures[j].task_id # futures[i].task_id
              /\ futures[j].state # "pending"

----------------------------------------------------------------------------
(* Properties of the write path (SpecWrites)                               *)

WriteOps ==
    {"create_food", "delete_food", "add_weight", "create_exercise_log", "create_workout"}

WriteCalls ==
    {"insert_food", "delete_food", "insert_weight", "insert_exercise_log", "insert_workout"}

\* C7: every write request (create food, delete food, add weight, create
\* exercise log, create workout) calls invalidate_user_cache for its user
\* after the committed write and before it returns.
C7_WritesInvalidate ==
    req.op \in WriteOps =>
        \E i, j \in 1..Len(req.calls) :
            /\ i < j
            /\ req.calls[i].fn \in WriteCalls
            /\ req.calls[j] = Call("invalidate_user_cache", req.user)

PerformanceCacheTypes == {"comprehensive_correlation", "performance_modeling"}

\* C8: after a workout or exercise-log write of user U has returned, get is
\* a miss for U under every performance-dependent type the analytics service
\* stores (comprehensive_correlation, performance_modeling).
C8_PerformanceWriteInvalidates ==
    req.op \in {"create_workout", "create_exercise_log"} =>
        \A T \in PerformanceCacheTypes, w \in BackgroundDays :
            get_cached_analysis(analytics_cache, now, req.user, T, w).none

----------------------------------------------------------------------------
(* Properties of the cached weight trend (SpecTrends)                      *)

\* the previous event was calculate_weight_trends(u, w) and this step is the
\* same call again: nothing was written, invalidated or expired in between
RepeatedCall(u, w) ==
    /\ req.op = "calculate_weight_trends"
    /\ req.user = u
    /\ req.days = w
    /\ CalculateWeightTrends(u, w)

----------------------------------------------------------------------------
(* The cache under repeated writes of the same key                         *)

\* what successive recomputations store: a payload with its confidence
Versions == {[result_data |-> [trend |-> "up"], confidence_level |-> 50],
             [result_data |-> [trend |-> "down"], confidence_level |-> 90]}

UpsertType == "weight_trends"
UpsertWindow == 30

\* cache_analysis_result called by a recomputation; req keeps the arguments
\* and the payloads the key held before
CacheUpsert(u, T, w, v, h) ==
    /\ analytics_cache' = cache_analysis_result(analytics_cache, now, u, T, w,
                                                v.result_data, v.confidence_level, h)
    /\ resp' = [op |-> "put", ok |-> TRUE]
    /\ req' = [op |-> "cache_analysis_result", seq |-> 1 - req.seq,
               user |-> u, type |-> T, days |-> w,
               result_data |-> v.result_data,
               confidence_level |-> v.confidence_level,
               cache_hours |-> h,
               old |-> {json_loads(r.result_data) :
                           r \in {x \in analytics_cache : SameKey(x, u, T, w)}}]
    /\ UNCHANGED <<now, rawVars, taskVars>>

InitUpsert == InitCacheVars /\ InitTaskVars /\ InitSvcVars

NextUpsert ==
    \/ \E u \in Users, v \in Versions, h \in TtlHours :
          CacheUpsert(u, UpsertType, UpsertWindow, v, h)
    \/ \E u \in Users : CacheGet(u, UpsertType, UpsertWindow)
    \/ \E u \in Users : CacheInvalidate(u, TypeList({UpsertType}))
    \/ CacheClearExpired
    \/ Tick

SpecUpsert == InitUpsert /\ [][NextUpsert]_vars

\* at most one row per (user_email, analysis_type, time_period)
UniqueKeys(rows) ==
    \A r1, r2 \in rows :
        SameKey(r1, r2.user_email, r2.analysis_type, r2.time_period) => r1 = r2

\* this step is a call of cache_analysis_result
UpsertStep == req'.op = "cache_analysis_result" /\ req'.seq # req.seq

\* what a get of row r's key returns now
CachedNow(r) ==
    get_cached_analysis(analytics_cache, now, r.user_email, r.analysis_type,
                        r.time_period)

----------------------------------------------------------------------------
(* Properties of the purge (SpecCache)                                     *)

\* this step is a call of clear_expired_cache
PurgeStep == resp'.op = "clear_expired" /\ CacheClearExpired

\* C12: clear_expired_cache removes exactly the expired rows: after it
\* returns no row whose expiry instant is at or before the current time
\* remains, every row get would have returned is still there unchanged, and
\* the count returned is the number of rows removed.
C12_PurgeRemovesExactlyExpired ==
    [][PurgeStep =>
          /\ \A r \in analytics_cache' : now' < TextInstant(r.expires_at)
          /\ \A r \in analytics_cache : ~CachedNow(r).none => r \in analytics_cache'
          /\ analytics_cache' \subseteq analytics_cache
          /\ resp'.count = Cardinality(analytics_cache \ analytics_cache')]_vars

----------------------------------------------------------------------------
(* AnalyticsService: nutrition / performance series                        *)

MaxSeries == 14

\* a NULL column value (estimated_1rm may be NULL; stored figures are >= 0)
NULL == 0 - 1

\* `value or 0`
OrZero(v) == IF v = NULL THEN 0 ELSE v

\* SELECT DATE(m.timestamp), SUM(...) ... WHERE DATE(m.timestamp) >=
\* date('now', '-N days') GROUP BY DATE(m.timestamp) ORDER BY DATE(m.timestamp)
_get_macro_data(u, days, t) ==
    LET rows == SelectSeq(daily_macros[u], LAMBDA m : m.date >= Today(t) - days)
    IN  [i \in 1..Len(rows) |->
            [date |-> rows[i].date,
             calories |-> OrZero(rows[i].calories),
             protein |-> OrZero(rows[i].protein),
             carbs |-> OrZero(rows[i].carbs),
             fat |-> OrZero(rows[i].fat)]]

\* SELECT pm.date, pm.estimated_1rm, pm.total_volume ... WHERE pm.date >=
\* date('now', '-N days') ORDER BY pm.date
_get_performance_data(u, days, t) ==
    LET rows == SelectSeq(performance_metrics[u], LAMBDA m : m.date >= Today(t) - days)
    IN  [i \in 1..Len(rows) |->
            [date |-> rows[i].date,
             estimated_1rm |-> rows[i].estimated_1rm,
             total_volume |-> OrZero(rows[i].total_volume)]]

\* variant: the common dates in descending order
RECURSIVE sorted_Reverse(_)
sorted_Reverse(S) ==
    IF S = {} THEN <<>>
    ELSE LET greatest == CHOOSE d \in S : \A e \in S : d >= e
         IN  <<greatest>> \o sorted_Reverse(S \ {greatest})

\* sorted(S) for a set of dates
RECURSIVE sorted(_)
sorted(S) ==
    IF S = {} THEN <<>>
    ELSE LET least == CHOOSE d \in S : \A e \in S : d <= e
         IN  <<least>> \o sorted(S \ {least})

\* {data.date: data for data in rows}[date]: the last row of that date
DictByDate(rows, date) ==
    rows[CHOOSE i \in 1..Len(rows) :
            /\ rows[i].date = date
            /\ \A j \in 1..Len(rows) : rows[j].date = date => j <= i]

DatesOf(rows) == {rows[i].date : i \in 1..Len(rows)}

_align_nutrition_performance_data(macro_data, performance_data) ==
    LET common_dates == DatesOf(macro_data) \cap DatesOf(performance_data)
        order == sorted(common_dates)
    IN  [i \in 1..Len(order) |->
            LET macro == DictByDate(macro_data, order[i])
                perf == DictByDate(performance_data, order[i])
            IN  [date |-> order[i],
                 calories |-> macro.calories,
                 protein |-> macro.protein,
                 carbs |-> macro.carbs,
                 fat |-> macro.fat,
                 estimated_1rm |-> perf.estimated_1rm,
                 total_volume |-> perf.total_volume]]

----------------------------------------------------------------------------
(* AnalyticsService: correlation with significance                         *)

min_macro_days == 14
min_performance_days == 14
min_aligned_points == 10

\* the pairs kept by `x is not None and y is not None and y != 0`
ValidPairs(x_values, y_values) ==
    LET both == IF Len(x_values) < Len(y_values) THEN Len(x_values) ELSE Len(y_values)
        zipped == [i \in 1..both |-> <<x_values[i], y_values[i]>>]
    IN  SelectSeq(zipped, LAMBDA pr : pr[1] # NULL /\ pr[2] # NULL /\ pr[2] # 0)

\* the three sums of products behind Pearson's r:
\* r = num / sqrt(varx * vary)
PearsonTerms(pairs) ==
    LET n == Len(pairs)
        x == [i \in 1..n |-> pairs[i][1]]
        y == [i \in 1..n |-> pairs[i][2]]
        sum_x == SeqSum(x)
        sum_y == SeqSum(y)
    IN  [num |-> n * SeqSum([i \in 1..n |-> x[i] * y[i]]) - sum_x * sum_y,
         varx |-> n * SeqSum([i \in 1..n |-> x[i] * x[i]]) - sum_x * sum_x,
         vary |-> n * SeqSum([i \in 1..n |-> y[i] * y[i]]) - sum_y * sum_y]

\* a coefficient r is kept exactly as its sign and its square
Coefficient(sign, sq) == [sign |-> sign, sq |-> sq]
ZeroCoefficient == Coefficient(0, <<0, 1>>)

Sign(v) == IF v > 0 THEN 1 ELSE IF v < 0 THEN 0 - 1 ELSE 0

_calculate_correlation(x_values, y_values) ==
    IF Len(x_values) # Len(y_values) \/ Len(x_values) < 2 THEN ZeroCoefficient
    ELSE LET valid_pairs == ValidPairs(x_values, y_values)
             s == PearsonTerms(valid_pairs)
         IN  IF Len(valid_pairs) < 2 THEN ZeroCoefficient
             ELSE IF s.varx * s.vary = 0 THEN ZeroCoefficient
             ELSE IF s.num = 0 THEN ZeroCoefficient
             ELSE Coefficient(Sign(s.num), Frac(s.num * s.num, s.varx * s.vary))

\* p / q >= d[1] + d[2]/10 + d[3]/10^2 + ..., for p >= 0, q > 0
RECURSIVE AtLeast(_, _, _)
AtLeast(p, q, d) ==
    IF d = <<>> THEN TRUE
    ELSE IF p < Head(d) * q THEN FALSE
    ELSE IF p >= (Head(d) + 1) * q THEN TRUE
    ELSE AtLeast((p - Head(d) * q) * 10, q, Tail(d))

\* variant: the standard table for every sample size
critical_values_OneTable(degrees_freedom) ==
    [p001 |-> <<10, 8, 3, 0, 6, 8, 1>>, p01 |-> <<6, 6, 3, 5, 7, 7, 6>>,
     p05 |-> <<3, 8, 4, 1, 6, 0, 0>>, p10 |-> <<2, 7, 0, 6, 0, 2, 5>>]

\* the squares of the critical values 4.587, 3.169, 2.228, 1.812 and
\* 3.291, 2.576, 1.960, 1.645, as an integer part and six decimals
critical_values(degrees_freedom) ==
    IF degrees_freedom <= 10
    THEN [p001 |-> <<21, 0, 4, 0, 5, 6, 9>>, p01 |-> <<10, 0, 4, 2, 5, 6, 1>>,
          p05 |-> <<4, 9, 6, 3, 9, 8, 4>>, p10 |-> <<3, 2, 8, 3, 3, 4, 4>>]
    ELSE [p001 |-> <<10, 8, 3, 0, 6, 8, 1>>, p01 |-> <<6, 6, 3, 5, 7, 7, 6>>,
          p05 |-> <<3, 8, 4, 1, 6, 0, 0>>, p10 |-> <<2, 7, 0, 6, 0, 2, 5>>]

\* the p-value in thousandths; t_stat^2 = tnum / tden
_calculate_p_value_from_t(tnum, tden, degrees_freedom) ==
    IF degrees_freedom < 3 THEN 1000
    ELSE LET c == critical_values(degrees_freedom)
         IN  IF AtLeast(tnum, tden, c.p001) THEN 1
             ELSE IF AtLeast(tnum, tden, c.p01) THEN 10
             ELSE IF AtLeast(tnum, tden, c.p05) THEN 50
             ELSE IF AtLeast(tnum, tden, c.p10) THEN 100
             ELSE 200

\* variant: a p-value equal to the level counts as significant at it
significant_at_OrEqual(p_value, level) == p_value <= level

\* `p_value < 0.05`, `p_value < 0.01`, `p_value < 0.001`, in thousandths
significant_at(p_value, level) == p_value < level

_calculate_correlation_with_significance(x_values, y_values) ==
    LET correlation == _calculate_correlation(x_values, y_values)
        n == Len(ValidPairs(x_values, y_values))
        r2 == correlation.sq
    IN  IF n < 3
        THEN [correlation |-> ZeroCoefficient, p_value |-> 1000, significant |-> FALSE,
              confidence_level |-> "none", sample_size |-> n,
              interpretation |-> "insufficient_data"]
        ELSE
        LET \* t^2 = r^2 (n - 2) / (1 - r^2)
            p_value == IF r2[1] = r2[2] THEN 0
                       ELSE _calculate_p_value_from_t(r2[1] * (n - 2), r2[2] - r2[1], n - 2)
            significant_05 == significant_at(p_value, 50)
            significant_01 == significant_at(p_value, 10)
            significant_001 == significant_at(p_value, 1)
            confidence_level == IF significant_001 THEN "very_high"
                                ELSE IF significant_01 THEN "high"
                                ELSE IF significant_05 THEN "moderate"
                                ELSE "low"
            significance_symbol == IF significant_001 THEN "***"
                                   ELSE IF significant_01 THEN "**"
                                   ELSE IF significant_05 THEN "*"
                                   ELSE ""
            \* |r| >= 0.7, 0.3, 0.1
            strength == IF 100 * r2[1] >= 49 * r2[2] THEN "strong"
                        ELSE IF 100 * r2[1] >= 9 * r2[2] THEN "moderate"
                        ELSE IF 100 * r2[1] >= r2[2] THEN "weak"
                        ELSE "negligible"
            direction == IF correlation.sign > 0 THEN "positive"
                         ELSE IF correlation.sign < 0 THEN "negative"
                         ELSE "none"
        IN  [correlation |-> correlation, p_value |-> p_value,
             significant |-> significant_05,
             confidence_level |-> confidence_level,
             significance_symbol |-> significance_symbol,
             sample_size |-> n, strength |-> strength, direction |-> direction,
             interpretation |-> IF correlation.sign # 0 THEN strength \o "_" \o direction
                                ELSE "no_correlation"]

Below_OrEqual(count, minimum) == count <= minimum

\* `len(...) < minimum`: a requirement fails
Below(count, minimum) == count < minimum

_validate_correlation_data_requirements(u, days, t) ==
    LET macro_data == _get_macro_data(u, days, t)
        performance_data == _get_performance_data(u, days, t)
        aligned_data == _align_nutrition_performance_data(macro_data, performance_data)
        requirements == [minimum_macro_days |-> min_macro_days,
                         minimum_performance_days |-> min_performance_days,
                         minimum_aligned_points |-> min_aligned_points,
                         current_macro_days |-> Len(macro_data),
                         current_performance_days |-> Len(performance_data),
                         current_aligned_points |-> Len(aligned_data)]
    IN  IF Below(Len(macro_data), min_macro_days)
        THEN [valid |-> FALSE,
              message |-> "Need at least 14 days of nutrition data for correlation analysis",
              requirements |-> requirements]
        ELSE IF Below(Len(performance_data), min_performance_days)
        THEN [valid |-> FALSE,
              message |-> "Need at least 14 days of workout performance data for correlation analysis",
              requirements |-> requirements]
        ELSE IF Below(Len(aligned_data), min_aligned_points)
        THEN [valid |-> FALSE,
              message |-> "Need at least 10 days with both nutrition and performance data for correlation analysis",
              requirements |-> requirements]
        ELSE [valid |-> TRUE,
              message |-> "Sufficient data for correlation analysis",
              requirements |-> requirements]

Macros == {"calories", "protein", "carbs", "fat"}

VolumeKey(macro) == macro \o "_vs_volume"
RmKey(macro) == macro \o "_vs_1rm"

\* datetime.now().isoformat(): local time without an offset
naive_isoformat(t) ==
    TwoDigits(t \div HoursPerDay) \o <<84>> \o TwoDigits(t % HoursPerDay) \o ClockTail

\* the answer of correlate_nutrition_performance when validation fails
insufficient_data(validation_result) ==
    [ret |-> [error |-> "insufficient_data",
              message |-> validation_result.message,
              requirements |-> validation_result.requirements],
     computed |-> 0]

\* correlate_nutrition_performance after the validation: the series are
\* fetched again, aligned and correlated; also how many times
\* _calculate_correlation_with_significance is called
correlations_of(u, days, t) ==
    LET macro_data == _get_macro_data(u, days, t)
        performance_data == _get_performance_data(u, days, t)
        aligned_data == _align_nutrition_performance_data(macro_data, performance_data)
        n == Len(aligned_data)
        volume_values == [i \in 1..n |-> aligned_data[i].total_volume]
        \* any(data["estimated_1rm"] for data in aligned_data)
        any_1rm == \E i \in 1..n : OrZero(aligned_data[i].estimated_1rm) # 0
        rm_values == [i \in 1..n |-> OrZero(aligned_data[i].estimated_1rm)]
        keys == {VolumeKey(m) : m \in Macros}
                  \cup (IF any_1rm THEN {RmKey(m) : m \in Macros} ELSE {})
                  \cup {"metadata"}
        entry(k) ==
            IF k = "metadata"
            THEN [data_points |-> n,
                  analysis_period_days |-> days,
                  macro_data_points |-> Len(macro_data),
                  performance_data_points |-> Len(performance_data),
                  analysis_date |-> naive_isoformat(t)]
            ELSE LET macro == CHOOSE m \in Macros : k \in {VolumeKey(m), RmKey(m)}
                     macro_values == [i \in 1..n |-> aligned_data[i][macro]]
                 IN  IF k = VolumeKey(macro)
                     THEN _calculate_correlation_with_significance(macro_values, volume_values)
                     ELSE _calculate_correlation_with_significance(macro_values, rm_values)
    IN  [ret |-> [k \in keys |-> entry(k)],
         computed |-> Cardinality(keys \ {"metadata"})]

\* what correlate_nutrition_performance returns, and how many times it calls
\* _calculate_correlation_with_significance
correlate_nutrition_performance(u, days, t) ==
    LET validation_result == _validate_correlation_data_requirements(u, days, t)
    IN  IF ~validation_result.valid
        THEN insufficient_data(validation_result)
        ELSE correlations_of(u, days, t)

CorrelateNutritionPerformance(u, days) ==
    \E out \in {correlate_nutrition_performance(u, days, now)} :
        /\ req' = [op |-> "correlate_nutrition_performance", seq |-> 1 - req.seq,
                   user |-> u, days |-> days, ret |-> out.ret, computed |-> out.computed]
        /\ UNCHANGED <<analytics_cache, now, resp, foods, food_seq, weights, exercise_logs,
                       workouts, bodyweight_log, profile, daily_macros,
                       performance_metrics, sweep, prediction_accuracy, inflight, taskVars>>

----------------------------------------------------------------------------
(* Correlation: stored series and steps                                    *)

SeriesLengths == (MaxSeries - 1)..MaxSeries
MacroShapes == {"flat", "rising"}
MacroEndDays == {0, 0 - 18}
PerfShifts == {0, 4, 5}
VolumeShapes == {"rising", "steady", "rest_days", "idle"}
RmShapes == {"null", "some", "all"}

\* n days of meals on consecutive days, the last one on day endDay
MkMacroSeries(n, shape, endDay) ==
    [i \in 1..n |-> [date |-> endDay - n + i,
                     calories |-> IF shape = "flat" THEN 2 ELSE i,
                     protein |-> 1 + (i % 2),
                     carbs |-> 20 - i,
                     fat |-> IF i % 5 = 0 THEN NULL ELSE 1 + (i % 3)]]

VolumeAt(shape, i) ==
    IF shape = "rising" THEN i
    ELSE IF shape = "steady" THEN 3 + (i % 2)
    ELSE IF shape = "rest_days" THEN (IF i % 2 = 0 THEN 0 ELSE i)
    ELSE NULL

RmAt(shape, i) ==
    IF shape = "null" THEN NULL
    ELSE IF shape = "some" THEN (IF i % 3 = 0 THEN NULL ELSE 5 + i)
    ELSE 10 + (i % 4)

\* n rows of performance_metrics on consecutive days, the last one on day endDay
MkPerfSeries(n, volume, rm, endDay) ==
    [i \in 1..n |-> [date |-> endDay - n + i,
                     estimated_1rm |-> RmAt(rm, i),
                     total_volume |-> VolumeAt(volume, i)]]

InitCorrelation ==
    /\ InitCacheVars /\ InitTaskVars /\ InitWriteTables
    /\ bodyweight_log = DefaultLog
    /\ profile = [u \in Users |-> [macro_days |-> 21, performance_days |-> 21]]
    /\ \E n \in SeriesLengths, sh \in MacroShapes, e \in MacroEndDays :
          daily_macros = [u \in Users |->
                             IF u = "alice" THEN MkMacroSeries(n, sh, e) ELSE <<>>]
    /\ \E n \in SeriesLengths, v \in VolumeShapes, r \in RmShapes, d \in PerfShifts :
          performance_metrics = [u \in Users |->
                                    IF u = "alice" THEN MkPerfSeries(n, v, r, 0 - d)
                                    ELSE <<>>]

NextCorrelation ==
    \/ \E u \in Users, w \in Windows : CorrelateNutritionPerformance(u, w)
    \/ AdvanceDay

SpecCorrelation == InitCorrelation /\ [][NextCorrelation]_vars

\* the dates of the stored rows that fall in the window of the last `days` days
WindowDates(rows, days) ==
    {rows[i].date : i \in {j \in 1..Len(rows) : rows[j].date >= Today(now) - days}}

\* C13: correlate_nutrition_performance answers insufficient_data, with the
\* current and minimum counts, exactly when the window holds fewer than 14
\* macro days, or fewer than 14 performance days, or fewer than 10 aligned
\* dates; the message names the first requirement that fails, in that
\* order, and no correlation is computed for that answer.

----------------------------------------------------------------------------
(* AnalyticsService: macro patterns                                        *)

FracAdd(a, b) == Frac(a[1] * b[2] + b[1] * a[2], a[2] * b[2])

\* what analyze_macro_patterns returns and the cache it leaves behind
analyze_macro_patterns(rows, t, u, days) ==
    LET cached_result == get_cached_analysis(rows, t, u, "macro_patterns", days)
    IN  IF ~cached_result.none
        THEN [ret |-> [k \in DOMAIN cached_result.result_data |->
                          TrendAnalysis(cached_result.result_data[k])],
              cache |-> rows]
        ELSE
        LET macro_data == _get_macro_data(u, days, t)
            n == Len(macro_data)
        IN  IF n < MinTrendPoints
            THEN [ret |-> <<>>, cache |-> rows]
            ELSE
            LET data_points(macro_name) ==
                    [i \in 1..n |-> [date |-> macro_data[i].date,
                                     value |-> macro_data[i][macro_name]]]
                analysis(macro_name) ==
                    LET rate_of_change == _calculate_linear_slope(data_points(macro_name))
                    IN  [metric_name |-> macro_name,
                         time_period |-> days,
                         trend_direction |-> _determine_trend_direction(rate_of_change),
                         rate_of_change |-> rate_of_change,
                         confidence_level |->
                             _calculate_trend_confidence(data_points(macro_name),
                                                         rate_of_change),
                         data_points |-> n,
                         start_date |-> macro_data[1].date,
                         end_date |-> macro_data[n].date]
                results == [k \in Macros |-> analysis(k)]
                total == FracAdd(FracAdd(results["calories"].confidence_level,
                                         results["protein"].confidence_level),
                                 FracAdd(results["carbs"].confidence_level,
                                         results["fat"].confidence_level))
                avg_confidence == Frac(total[1], total[2] * Cardinality(Macros))
            IN  [ret |-> results,
                 cache |-> cache_analysis_result(rows, t, u, "macro_patterns", days,
                                                 results, avg_confidence,
                                                 DefaultCacheHours)]

AnalyzeMacroPatterns(u, days) ==
    \E out \in {analyze_macro_patterns(analytics_cache, now, u, days)} :
        /\ analytics_cache' = out.cache
        /\ req' = [op |-> "analyze_macro_patterns", seq |-> 1 - req.seq, user |-> u,
                   days |-> days, patterns |-> out.ret]
        /\ UNCHANGED <<now, resp, rawVars, taskVars>>

InitReports ==
    /\ InitCacheVars /\ InitTaskVars /\ InitWriteTables
    /\ profile = [u \in Users |-> [macro_days |-> 21, performance_days |-> 21]]
    /\ \E n \in (MaxPoints - 2)..(MaxPoints - 1) :
          bodyweight_log = [u \in Users |->
                               IF u = "alice" THEN MkSeries(n, "zigzag", 0) ELSE <<>>]
    /\ \E n \in SeriesLengths, sh \in MacroShapes :
          daily_macros = [u \in Users |->
                             IF u = "alice" THEN MkMacroSeries(n, sh, 0) ELSE <<>>]
    /\ \E v \in {"rising", "rest_days"} :
          performance_metrics = [u \in Users |->
                                    IF u = "alice"
                                    THEN MkPerfSeries(MaxSeries, v, "some", 0) ELSE <<>>]

NextReports ==
    \/ \E u \in Users, w \in Windows : CalculateWeightTrends(u, w)
    \/ \E u \in Users, w \in Windows : AnalyzeMacroPatterns(u, w)
    \/ \E u \in Users, w \in Windows : CorrelateNutritionPerformance(u, w)

SpecReports == InitReports /\ [][NextReports]_vars

\* the floor of a trend confidence, 0.0
IsZero(fraction) == fraction[1] = 0

\* C14: every trend report returned by calculate_weight_trends or
\* analyze_macro_patterns has at least 7 data points or confidence 0.0, and
\* every correlation result returned by correlate_nutrition_performance has
\* a sample size (pairs left after filtering) of at least 10 or the
\* confidence level "none".
C14_BelowThresholdIsFloored ==
    /\ (req.op = "calculate_weight_trends" /\ ~req.ret.none) =>
          (req.ret.report.data_points >= 7 \/ IsZero(req.ret.report.confidence_level))
    /\ req.op = "analyze_macro_patterns" =>
          \A k \in DOMAIN req.patterns :
              req.patterns[k].data_points >= 7 \/ IsZero(req.patterns[k].confidence_level)
    /\ (req.op = "correlate_nutrition_performance" /\ "error" \notin DOMAIN req.ret) =>
          \A k \in DOMAIN req.ret \ {"metadata"} :
              req.ret[k].sample_size >= 10 \/ req.ret[k].confidence_level = "none"

----------------------------------------------------------------------------
(* BackgroundTaskManager under fair scheduling                             *)

\* the function of future i terminates, by returning or by raising
TaskFinish(i) ==
    /\ i \in FutureIndexes
    /\ \/ \E r \in TaskPayloads : TaskReturn(i, r)
       \/ \E m \in ErrorMessages : TaskRaise(i, m)

\* a thread inside `with self._lock` of submit_task runs to the end of the block
SubmitProceed(t) == SubmitCheck(t) \/ SubmitInsert(t)

\* the pool's workers take queued futures and run them to their end, a
\* thread holding the lock leaves its block, and the caller keeps polling
\* every task id (its calls get the lock again and again)
SpecTasksFair ==
    /\ InitTasks
    /\ [][NextTasks]_vars
    /\ WF_vars(WorkerStart)
    /\ \A i \in 1..MaxFutures : WF_vars(TaskFinish(i))
    /\ \A t \in Threads : WF_vars(SubmitProceed(t))
    /\ \A id \in TaskIds : SF_vars(GetTaskStatus(id))

\* the last answer of get_task_status(id) was completed or error
ObservedFinal(id) ==
    /\ taskResp.op = "status"
    /\ taskResp.id = id
    /\ taskResp.ret.status \in {"completed", "error"}

\* C15: once a submit of a task id is accepted (its future is registered in
\* active_tasks), a caller that keeps polling get_task_status(id) eventually
\* gets the answer completed or error, whatever the interleaving with
\* cleanup_completed_tasks.
C15_PollingObservesEnd ==
    \A id \in TaskIds : (active_tasks[id] # 0) ~> ObservedFinal(id)

----------------------------------------------------------------------------
(* AnalyticsService: the cleanup thread                                    *)

SweepSeconds == 3600
RetrySeconds == 300

\* variant: an `except` block that leaves the loop
except_block_Break(s) == [s EXCEPT !.at = "exit", !.wait = 0, !.last = "raised"]

\* `except Exception as e: print(...); time.sleep(300)`
except_block(s) == [s EXCEPT !.at = "sleep", !.wait = RetrySeconds, !.last = "raised"]

\* expired_count = self.analytics_db.clear_expired_cache(): the rows are
\* deleted, or the store fails and the call answers 0
SweepPurge ==
    /\ sweep.at = "purge"
    /\ \/ /\ analytics_cache' = clear_expired_cache(analytics_cache, now)
          /\ sweep' = [sweep EXCEPT !.at = "cleanup",
                           !.expired_count = Cardinality(ExpiredRows(analytics_cache, now))]
       \/ /\ analytics_cache' = analytics_cache
          /\ sweep' = [sweep EXCEPT !.at = "cleanup", !.expired_count = 0]
    /\ UNCHANGED <<now, resp, taskVars, foods, food_seq, weights, exercise_logs, workouts,
                   bodyweight_log, profile, daily_macros, performance_metrics,
                   prediction_accuracy, inflight, req>>

\* self.background_manager.cleanup_completed_tasks() returns, then
\* time.sleep(3600) begins
SweepCleanup ==
    /\ sweep.at = "cleanup"
    /\ lock = "free"
    /\ active_tasks' = [id \in TaskIds |->
                           IF id \in completed_tasks THEN 0 ELSE active_tasks[id]]
    /\ taskResp' = [op |-> "cleanup", removed |-> completed_tasks]
    /\ sweep' = [sweep EXCEPT !.at = "sleep", !.wait = SweepSeconds, !.last = "ok"]
    /\ UNCHANGED <<futures, task_results, lock, pc, ret, cacheVars, foods, food_seq,
                   weights, exercise_logs, workouts, bodyweight_log, profile,
                   daily_macros, performance_metrics,
                   prediction_accuracy, inflight, req>>

\* the task cleanup raises: control goes to the `except` block
SweepCleanupRaises ==
    /\ sweep.at = "cleanup"
    /\ sweep' = except_block(sweep)
    /\ UNCHANGED <<cacheVars, taskVars, foods, food_seq, weights, exercise_logs, workouts,
                   bodyweight_log, profile, daily_macros, performance_metrics,
                   prediction_accuracy, inflight, req>>

\* time.sleep returns and `while True` starts the next iteration
SweepWake ==
    /\ sweep.at = "sleep"
    /\ sweep' = [sweep EXCEPT !.at = "purge", !.wait = 0]
    /\ UNCHANGED <<cacheVars, taskVars, foods, food_seq, weights, exercise_logs, workouts,
                   bodyweight_log, profile, daily_macros, performance_metrics,
                   prediction_accuracy, inflight, req>>

SweepTry == SweepCleanup \/ SweepCleanupRaises

InitSweep == InitCacheVars /\ InitTaskVars /\ InitSvcVars

\* one caller thread submits task "A" again and again while the cleanup
\* thread runs, and one user's cache row is written and ages
NextSweep ==
    \/ SweepPurge
    \/ SweepCleanup
    \/ SweepCleanupRaises
    \/ SweepWake
    \/ CachePut("alice", "weight_trends", 30, [trend |-> "up"], 50, 1)
    \/ Tick
    \/ SubmitAcquire("t1", "A")
    \/ SubmitCheck("t1")
    \/ SubmitInsert("t1")
    \/ WorkerStart
    \/ \E i \in FutureIndexes : TaskReturn(i, "r1")

\* the cleanup thread is scheduled, its sleeps end, it gets the lock that
\* submitters take and release, and a submitter leaves its `with` block
SpecSweep ==
    /\ InitSweep
    /\ [][NextSweep]_vars
    /\ WF_vars(SweepPurge)
    /\ SF_vars(SweepTry)
    /\ WF_vars(SweepWake)
    /\ WF_vars(SubmitProceed("t1"))

\* C16: the cleanup loop never ends. When the purge or the task cleanup of
\* an iteration raises, the loop sleeps the retry interval of 300 seconds
\* (not the 3600 seconds of a good iteration) and then starts another
\* iteration; the purge and the task cleanup are attempted again and again.
C16_SweepRunsForever ==
    /\ [][sweep.at \in {"purge", "cleanup"} /\ sweep'.at \notin {"purge", "cleanup"}
             /\ sweep'.last = "raised"
             => sweep'.at = "sleep" /\ sweep'.wait = 300]_vars
    /\ [](sweep.at = "sleep" /\ sweep.last = "ok" => sweep.wait = 3600)
    /\ [](sweep.at = "sleep" => <>(sweep.at = "purge"))
    /\ []<><<sweep.at = "purge" /\ sweep'.at = "cleanup">>_vars
    /\ []<><<sweep.at = "cleanup" /\ sweep'.at # "cleanup">>_vars

\* C16 witness: an iteration raised, the loop slept and has begun the next
\* iteration's task cleanup
C16_Witness ==
    /\ sweep.last = "raised"
    /\ sweep.at = "cleanup"

----------------------------------------------------------------------------
(* AnalyticsDB: prediction accuracy log                                    *)

MaxLog == 2
MaxValue == 4

\* rationals <<numerator, denominator>> with a positive denominator
RatLess(a, b) == a[1] * b[2] < b[1] * a[2]
RatMin(a, b) == IF RatLess(b, a) THEN b ELSE a
RatMax(a, b) == IF RatLess(a, b) THEN b ELSE a

\* variant: the absolute error divided by abs(actual_value) alone
accuracy_score_NoFloor(predicted_value, actual_value) ==
    IF actual_value[1] = 0 THEN <<0, 1>>
    ELSE LET ratio == <<Abs(predicted_value[1] * actual_value[2]
                              - actual_value[1] * predicted_value[2]) * actual_value[2],
                        predicted_value[2] * actual_value[2] * Abs(actual_value[1])>>
         IN  IF ratio[1] >= ratio[2] THEN <<0, 1>>
             ELSE Frac(ratio[2] - ratio[1], ratio[2])

\* denom = max(abs(actual_value), 1.0)
\* accuracy_score = max(0.0, 1.0 - abs(predicted_value - actual_value) / denom)
accuracy_score(predicted_value, actual_value) ==
    LET denom == RatMax(<<Abs(actual_value[1]), actual_value[2]>>, <<1, 1>>)
        error == <<Abs(predicted_value[1] * actual_value[2]
                       - actual_value[1] * predicted_value[2]),
                   predicted_value[2] * actual_value[2]>>
        ratio == <<error[1] * denom[2], error[2] * denom[1]>>
    IN  IF ratio[1] >= ratio[2] THEN <<0, 1>>
        ELSE Frac(ratio[2] - ratio[1], ratio[2])

\* the table after the INSERT of log_prediction_accuracy
log_prediction_accuracy(rows, t, u, T, predicted_value, actual_value, prediction_date, actual_date) ==
    Append(rows, [user_email |-> u, prediction_type |-> T,
                  predicted_value |-> predicted_value,
                  actual_value |-> actual_value,
                  prediction_date |-> prediction_date,
                  actual_date |-> actual_date,
                  accuracy_score |-> accuracy_score(predicted_value, actual_value),
                  created_at |-> isoformat(t)])

\* variant: the query without its prediction_type condition
AccuracyRows_AnyType(rows, u, T) ==
    SelectSeq(rows, LAMBDA r : r.user_email = u)

\* WHERE user_email = ? [AND prediction_type = ?]; `if prediction_type:`
\* adds the second condition for a non-empty type only
AccuracyRows(rows, u, T) ==
    SelectSeq(rows, LAMBDA r : r.user_email = u /\ (T = "" \/ r.prediction_type = T))

RECURSIVE RatSum(_)
RatSum(q) == IF q = <<>> THEN <<0, 1>> ELSE FracAdd(Head(q), RatSum(Tail(q)))

\* AVG over a non-empty sequence of rationals
RatAvg(q) == Frac(RatSum(q)[1], RatSum(q)[2] * Len(q))

\* MIN and MAX over a non-empty sequence of rationals
RECURSIVE RatMinOf(_)
RatMinOf(q) == IF Len(q) = 1 THEN q[1] ELSE RatMin(Head(q), RatMinOf(Tail(q)))

RECURSIVE RatMaxOf(_)
RatMaxOf(q) == IF Len(q) = 1 THEN q[1] ELSE RatMax(Head(q), RatMaxOf(Tail(q)))

ZeroStats ==
    [average_accuracy |-> <<0, 1>>, min_accuracy |-> <<0, 1>>,
     max_accuracy |-> <<0, 1>>, total_predictions |-> 0]

get_prediction_accuracy_stats(rows, u, T) ==
    LET hit == AccuracyRows(rows, u, T)
        scores == [i \in 1..Len(hit) |-> hit[i].accuracy_score]
        total == Len(hit)
    IN  IF total <= 0 THEN ZeroStats
        ELSE [average_accuracy |-> RatAvg(scores),
              min_accuracy |-> RatMinOf(scores),
              max_accuracy |-> RatMaxOf(scores),
              total_predictions |-> total]

----------------------------------------------------------------------------
(* PredictionService: accuracy trends                                      *)

\* DATE(actual_date): the date part of the text
DateOf(text) == SubSeq(text, 1, 2)

\* ORDER BY date DESC
RECURSIVE DatesDescending(_)
DatesDescending(S) ==
    IF S = {} THEN <<>>
    ELSE LET latest == CHOOSE d \in S : \A e \in S : TextCompare(d, e) >= 0
         IN  <<latest>> \o DatesDescending(S \ {latest})

Prefix(q, n) == SubSeq(q, 1, IF Len(q) < n THEN Len(q) ELSE n)

\* SELECT DATE(actual_date), AVG(accuracy_score), COUNT(*) ... GROUP BY
\* DATE(actual_date) ORDER BY date DESC LIMIT 30
DailyAccuracy(rows, u, T) ==
    LET hit == AccuracyRows(rows, u, T)
        dates == Prefix(DatesDescending({DateOf(hit[i].actual_date) : i \in 1..Len(hit)}), 30)
        ofDate(d) == SelectSeq(hit, LAMBDA r : DateOf(r.actual_date) = d)
    IN  [i \in 1..Len(dates) |->
            [date |-> dates[i],
             daily_accuracy |-> RatAvg([j \in 1..Len(ofDate(dates[i])) |->
                                           ofDate(dates[i])[j].accuracy_score]),
             predictions_count |-> Len(ofDate(dates[i]))]]

\* what calculate_accuracy_trends returns when its query succeeds
calculate_accuracy_trends(rows, u, T) ==
    LET daily_accuracy == DailyAccuracy(rows, u, T)
        n == Len(daily_accuracy)
        values == [i \in 1..n |-> daily_accuracy[i].daily_accuracy]
        recent_accuracy == Prefix(values, 7)
        older_accuracy == IF n <= 7 THEN <<>> ELSE SubSeq(values, 8, IF n < 14 THEN n ELSE 14)
        recent_avg == IF recent_accuracy = <<>> THEN <<0, 1>> ELSE RatAvg(recent_accuracy)
        older_avg == IF older_accuracy = <<>> THEN <<0, 1>> ELSE RatAvg(older_accuracy)
        trend == IF Len(recent_accuracy) >= 3 /\ Len(older_accuracy) >= 3
                 THEN IF RatLess(FracAdd(older_avg, <<5, 100>>), recent_avg) THEN "improving"
                      ELSE IF RatLess(recent_avg, FracAdd(older_avg, <<0 - 5, 100>>))
                      THEN "declining"
                      ELSE "stable"
                 ELSE "insufficient_data"
    IN  IF n = 0
        THEN [trend |-> "insufficient_data",
              message |-> "Not enough prediction accuracy data for trend analysis"]
        ELSE [trend |-> trend,
              recent_average_accuracy |-> recent_avg,
              older_average_accuracy |-> older_avg,
              total_predictions |-> SeqSum([i \in 1..n |-> daily_accuracy[i].predictions_count]),
              analysis_period_days |-> n,
              daily_data |-> [i \in 1..n |->
                                 [date |-> daily_accuracy[i].date,
                                  accuracy |-> daily_accuracy[i].daily_accuracy,
                                  predictions |-> daily_accuracy[i].predictions_count]]]

----------------------------------------------------------------------------
(* Calls into the store, with the store up or raising                      *)

Returned(kind, keys) == [raised |-> FALSE, kind |-> kind, keys |-> keys]
Raised(exception) == [raised |-> TRUE, kind |-> exception, keys |-> {}]

StoreOps ==
    {"cache_analysis_result", "get_cached_analysis", "clear_expired_cache",
     "log_prediction_accuracy", "get_prediction_accuracy_stats",
     "invalidate_user_cache", "get_cache_stats",
     "_get_weight_data", "_get_macro_data", "_get_performance_data",
     "get_recent_prediction_accuracy", "calculate_accuracy_trends",
     "get_prediction_type_performance"}

\* what the caller gets when the operation's query raises: the value of the
\* operation's `except Exception` block, or the exception that leaves it
on_store_error(op) ==
    IF op \in {"cache_analysis_result", "log_prediction_accuracy"} THEN Returned("False", {})
    ELSE IF op = "get_cached_analysis" THEN Returned("None", {})
    ELSE IF op \in {"clear_expired_cache", "invalidate_user_cache"} THEN Returned("0", {})
    ELSE IF op = "get_prediction_accuracy_stats"
    THEN Returned("mapping", DOMAIN ZeroStats)
    ELSE IF op = "get_cache_stats" THEN Returned("mapping", {"error"})
    ELSE IF op \in {"_get_weight_data", "_get_macro_data", "_get_performance_data",
                    "get_recent_prediction_accuracy"}
    THEN Returned("list", {})
    ELSE IF op = "get_prediction_type_performance" THEN Returned("mapping", {})
    \* calculate_accuracy_trends: `except Exception:` binds no name, and the
    \* block evaluates str(e)
    ELSE Raised("NameError")

\* a call of op while the store raises: no table changes
StoreRaises(op) ==
    /\ req' = [op |-> op, seq |-> 1 - req.seq, store |-> "raises", out |-> on_store_error(op)]
    /\ UNCHANGED <<cacheVars, taskVars, rawVars>>

PredictionTypes == {"weight_change", "workout_performance"}
LoggedValues == {<<0 - 3, 1>>, <<1, 2>>}

\* POST /analytics/accuracy/log -> PredictionService.log_prediction_accuracy,
\* the store up
LogPredictionAccuracy(u, T, predicted_value, actual_value) ==
    /\ Len(prediction_accuracy) < MaxLog
    /\ prediction_accuracy' =
          log_prediction_accuracy(prediction_accuracy, now, u, T, predicted_value,
                                  actual_value, naive_isoformat(now), naive_isoformat(now))
    /\ req' = [op |-> "log_prediction_accuracy", seq |-> 1 - req.seq, user |-> u,
               type |-> T, predicted_value |-> predicted_value,
               actual_value |-> actual_value, ok |-> TRUE]
    /\ UNCHANGED <<cacheVars, taskVars, foods, food_seq, weights, exercise_logs, workouts,
                   bodyweight_log, profile, daily_macros, performance_metrics, sweep,
                   inflight>>

GetPredictionAccuracyStats(u, T) ==
    /\ req' = [op |-> "get_prediction_accuracy_stats", seq |-> 1 - req.seq, user |-> u,
               type |-> T, stats |-> get_prediction_accuracy_stats(prediction_accuracy, u, T)]
    /\ UNCHANGED <<cacheVars, taskVars, rawVars>>

CalculateAccuracyTrends(u, T) ==
    /\ req' = [op |-> "calculate_accuracy_trends", seq |-> 1 - req.seq, user |-> u,
               type |-> T, trends |-> calculate_accuracy_trends(prediction_accuracy, u, T)]
    /\ UNCHANGED <<cacheVars, taskVars, rawVars>>

InitAccuracy == InitCacheVars /\ InitTaskVars /\ InitSvcVars

NextAccuracy ==
    \/ \E u \in Users, T \in PredictionTypes, a \in LoggedValues :
          LogPredictionAccuracy(u, T, <<1, 1>>, a)
    \/ \E u \in Users, T \in PredictionTypes \cup {""} : GetPredictionAccuracyStats(u, T)
    \/ \E op \in {"log_prediction_accuracy", "get_prediction_accuracy_stats"} :
          StoreRaises(op)

SpecAccuracy == InitAccuracy /\ [][NextAccuracy]_vars

NextStoreErrors ==
    \/ \E op \in StoreOps : StoreRaises(op)
    \/ \E u \in Users, T \in PredictionTypes, a \in LoggedValues :
          LogPredictionAccuracy(u, T, <<1, 1>>, a)
    \/ \E u \in Users, T \in PredictionTypes \cup {""} : CalculateAccuracyTrends(u, T)
    \/ AdvanceDay

SpecStoreErrors == InitAccuracy /\ [][NextStoreErrors]_vars

\* C17: when the store raises, every operation that reads or writes it
\* returns a negative result of its type (False, 0, None, an empty list or
\* mapping, or a mapping with an error or trend marker) and no exception
\* reaches the caller; calculate_accuracy_trends returns a mapping with the
\* key "trend".
C17_StoreErrorsAreAbsorbed ==
    (req.op \in StoreOps /\ "store" \in DOMAIN req) =>
        /\ ~req.out.raised
        /\ req.out.kind \in {"False", "0", "None", "list", "mapping"}
        /\ req.op = "calculate_accuracy_trends" =>
              (req.out.kind = "mapping" /\ "trend" \in req.out.keys)

\* the number of rows logged for user u, of type T when T is not empty
LoggedCount(rows, u, T) ==
    Cardinality({i \in 1..Len(rows) :
                    rows[i].user_email = u /\ (T = "" \/ rows[i].prediction_type = T)})

\* C18: the prediction-accuracy log is append-only. No step deletes or
\* changes a record, a successful log_prediction_accuracy call adds exactly
\* one record (the one it was given), and get_prediction_accuracy_stats
\* reports total_predictions equal to the number of records logged so far
\* for the user, of the given type when a type is given and of all types
\* otherwise.
C18_AppendOnlyLog ==
    [][/\ Len(prediction_accuracy') >= Len(prediction_accuracy)
       /\ SubSeq(prediction_accuracy', 1, Len(prediction_accuracy)) = prediction_accuracy
       /\ (req'.op = "log_prediction_accuracy" /\ req'.seq # req.seq /\ "ok" \in DOMAIN req')
             => /\ Len(prediction_accuracy') = Len(prediction_accuracy) + 1
                /\ LET new == prediction_accuracy'[Len(prediction_accuracy')]
                   IN  /\ new.user_email = req'.user
                       /\ new.prediction_type = req'.type
                       /\ new.predicted_value = req'.predicted_value
                       /\ new.actual_value = req'.actual_value
       /\ ~(req'.op = "log_prediction_accuracy" /\ req'.seq # req.seq /\ "ok" \in DOMAIN req')
             => prediction_accuracy' = prediction_accuracy
       /\ (req'.op = "get_prediction_accuracy_stats" /\ "stats" \in DOMAIN req')
             => req'.stats.total_predictions =
                   LoggedCount(prediction_accuracy', req'.user, req'.type)
      ]_vars

\* C18 witness: a user with two records of different types asks for the
\* statistics of one type and is told 1
C18_Witness ==
    /\ req.op = "get_prediction_accuracy_stats"
    /\ "stats" \in DOMAIN req
    /\ req.type # ""
    /\ LoggedCount(prediction_accuracy, req.user, "") = 2
    /\ req.stats.total_predictions = 1

----------------------------------------------------------------------------
(* accuracy_score over a grid of predicted and actual values               *)

\* whole and half values between -MaxValue and MaxValue
ScoreValues == {<<n, d>> : n \in (0 - MaxValue)..MaxValue, d \in {1, 2}}

InitScore ==
    /\ InitCacheVars /\ InitTaskVars /\ InitTables
    /\ bodyweight_log = DefaultLog
    /\ profile = [u \in Users |-> [macro_days |-> 21, performance_days |-> 21]]
    /\ daily_macros = [u \in Users |-> <<>>]
    /\ performance_metrics = [u \in Users |-> <<>>]
    /\ \E p \in ScoreValues, a \in ScoreValues :
          req = [op |-> "input", seq |-> 0, predicted_value |-> p, actual_value |-> a]

\* the drawn pair is logged
LogDrawn ==
    /\ req.op = "input"
    /\ LogPredictionAccuracy("alice", "weight_change", req.predicted_value, req.actual_value)

NextScore == LogDrawn

SpecScore == InitScore /\ [][NextScore]_vars

\* C19: every record of the log carries accuracy_score =
\* max(0, 1 - |predicted - actual| / max(|actual|, 1)), a value between 0
\* and 1, whatever the predicted and actual values (actual = 0 and negative
\* values included).
C19_ScoreFormula ==
    \A i \in 1..Len(prediction_accuracy) :
        LET r == prediction_accuracy[i]
            p == r.predicted_value
            a == r.actual_value
            s == r.accuracy_score
            \* |predicted - actual| and max(|actual|, 1), both times p[2] * a[2]
            error == Abs(p[1] * a[2] - a[1] * p[2])
            denom == IF Abs(a[1]) >= a[2] THEN Abs(a[1]) * p[2] ELSE a[2] * p[2]
        IN  /\ s[2] > 0
            /\ 0 <= s[1] /\ s[1] <= s[2]
            /\ IF error >= denom THEN s[1] = 0
               ELSE s[1] * denom = s[2] * (denom - error)

\* C19 witness: a record with actual value 0, a negative predicted value
\* and a score strictly between 0 and 1
C19_Witness ==
    \E i \in 1..Len(prediction_accuracy) :
        /\ prediction_accuracy[i].actual_value[1] = 0
        /\ prediction_accuracy[i].predicted_value[1] < 0
        /\ prediction_accuracy[i].accuracy_score = <<1, 2>>

----------------------------------------------------------------------------
(* _align_nutrition_performance_data over series with gaps                 *)

MaxDates == 4

\* the days of D in date order
DaysIn(D) == SelectSeq([d \in 1..MaxDates |-> d], LAMBDA d : d \in D)

\* the macro totals of the days in D, in date order
MacroRowsOn(D) ==
    LET order == DaysIn(D)
    IN  [i \in 1..Len(order) |->
            [date |-> order[i], calories |-> 10 + order[i], protein |-> order[i],
             carbs |-> 20 - order[i], fat |-> NULL]]

\* one performance_metrics row for each day in D, in date order, and a
\* second row for the first day when twice is TRUE
PerfRowsOn(D, twice) ==
    LET order == DaysIn(D)
        row(d, k) == [date |-> d,
                      estimated_1rm |-> IF d % 2 = 0 THEN NULL ELSE 100 + d + k,
                      total_volume |-> 2 * d + k]
        once == [i \in 1..Len(order) |-> row(order[i], 0)]
    IN  IF twice /\ order # <<>>
        THEN <<row(order[1], 0), row(order[1], 1)>> \o Tail(once)
        ELSE once

InitAlign ==
    /\ InitCacheVars /\ InitTaskVars /\ InitWriteTables
    /\ bodyweight_log = DefaultLog
    /\ profile = [u \in Users |-> [macro_days |-> 21, performance_days |-> 21]]
    /\ \E D \in SUBSET (1..MaxDates) :
          daily_macros = [u \in Users |-> IF u = "alice" THEN MacroRowsOn(D) ELSE <<>>]
    /\ \E D \in SUBSET (1..MaxDates), twice \in BOOLEAN :
          performance_metrics = [u \in Users |->
                                    IF u = "alice" THEN PerfRowsOn(D, twice) ELSE <<>>]

\* the two series of a user are read and aligned
AlignNutritionPerformanceData(u, days) ==
    LET macro_data == _get_macro_data(u, days, now)
        performance_data == _get_performance_data(u, days, now)
    IN  /\ req' = [op |-> "_align_nutrition_performance_data", seq |-> 1 - req.seq,
                   user |-> u, macro_data |-> macro_data,
                   performance_data |-> performance_data,
                   aligned |-> _align_nutrition_performance_data(macro_data,
                                                                 performance_data)]
        /\ UNCHANGED <<cacheVars, taskVars, rawVars>>

NextAlign == \E u \in Users, w \in Windows : AlignNutritionPerformanceData(u, w)

SpecAlign == InitAlign /\ [][NextAlign]_vars

\* C20: _align_nutrition_performance_data returns exactly one row for each
\* date that occurs in both the macro series and the performance series,
\* the row carrying that date's calories, protein, carbs, fat, estimated_1rm
\* and total_volume, in strictly ascending date order; a date of only one
\* series gives no row.
C20_AlignIsInnerJoin ==
    req.op = "_align_nutrition_performance_data" =>
        LET out == req.aligned
            M == req.macro_data
            P == req.performance_data
        IN  /\ \A i \in 1..Len(out) : \A j \in 1..Len(out) :
                  i < j => out[i].date < out[j].date
            /\ {out[i].date : i \in 1..Len(out)} =
                  {M[i].date : i \in 1..Len(M)} \cap {P[i].date : i \in 1..Len(P)}
            /\ \A i \in 1..Len(out) :
                  /\ DOMAIN out[i] = {"date", "calories", "protein", "carbs", "fat",
                                      "estimated_1rm", "total_volume"}
                  /\ \E m \in 1..Len(M) :
                        /\ M[m].date = out[i].date
                        /\ M[m].calories = out[i].calories
                        /\ M[m].protein = out[i].protein
                        /\ M[m].carbs = out[i].carbs
                        /\ M[m].fat = out[i].fat
                  /\ \E p \in 1..Len(P) :
                        /\ P[p].date = out[i].date
                        /\ P[p].estimated_1rm = out[i].estimated_1rm
                        /\ P[p].total_volume = out[i].total_volume

\* C20 witness: macro days {1, 2, 4} and performance days {1, 3, 4} give
\* two rows, for days 1 and 4
C20_Witness ==
    /\ req.op = "_align_nutrition_performance_data"
    /\ {req.macro_data[i].date : i \in 1..Len(req.macro_data)} = {1, 2, 4}
    /\ {req.performance_data[i].date : i \in 1..Len(req.performance_data)} = {1, 3, 4}
    /\ Len(req.aligned) = 2
    /\ req.aligned[1].date = 1
    /\ req.aligned[2].date = 4

----------------------------------------------------------------------------
(* _calculate_correlation_with_significance over a family of samples        *)

MaxPairs == 13

SlopeDivisors == {0, 1, 3, 4}
Offsets == {0, 1}
Multipliers == {1, 2}
Moduli == {2, 3, 5, 6}

\* x = 1, 2, ..., n, the first value missing when nullx is TRUE
MkX(n, nullx) == [i \in 1..n |-> IF nullx /\ i = 1 THEN NULL ELSE i]

\* y = c + i div d + (i * m mod q): a slope (none when d = 0) under a
\* periodic disturbance; some values are 0
MkY(n, d, c, m, q) ==
    [i \in 1..n |-> c + (IF d = 0 THEN 0 ELSE i \div d) + ((i * m) % q)]

InitSignificance ==
    /\ InitCacheVars /\ InitTaskVars /\ InitTables
    /\ bodyweight_log = DefaultLog
    /\ profile = [u \in Users |-> [macro_days |-> 21, performance_days |-> 21]]
    /\ daily_macros = [u \in Users |-> <<>>]
    /\ performance_metrics = [u \in Users |-> <<>>]
    /\ \E n \in 2..MaxPairs, nullx \in BOOLEAN, d \in SlopeDivisors, c \in Offsets,
          m \in Multipliers, q \in Moduli :
          req = [op |-> "input", seq |-> 0,
                 x_values |-> MkX(n, nullx), y_values |-> MkY(n, d, c, m, q)]

\* the drawn sample is correlated
CalculateCorrelationWithSignificance ==
    /\ req.op = "input"
    /\ req' = [op |-> "_calculate_correlation_with_significance", seq |-> 1 - req.seq,
               x_values |-> req.x_values, y_values |-> req.y_values,
               significance |-> _calculate_correlation_with_significance(req.x_values,
                                                                         req.y_values)]
    /\ UNCHANGED <<cacheVars, taskVars, rawVars>>

NextSignificance == CalculateCorrelationWithSignificance

SpecSignificance == InitSignificance /\ [][NextSignificance]_vars

\* the sample behind the last answer: the number of valid pairs, r^2 as a
\* reduced fraction, and t^2 = r^2 (n - 2) / (1 - r^2) as tnum / tden
Sample ==
    LET pairs == ValidPairs(req.x_values, req.y_values)
        s == PearsonTerms(pairs)
        r2 == IF s.varx * s.vary = 0 THEN <<0, 1>>
              ELSE Frac(s.num * s.num, s.varx * s.vary)
    IN  [n |-> Len(pairs), perfect |-> r2[1] = r2[2],
         tnum |-> r2[1] * (Len(pairs) - 2), tden |-> r2[2] - r2[1]]

\* |t| is at or above the critical value of the given level in the table of
\* the sample's bucket (conservative for n - 2 <= 10, standard above);
\* the tuples are the squared critical values
TAtLeast(level) ==
    LET conservative ==
            [p001 |-> <<21, 0, 4, 0, 5, 6, 9>>,     \* 4.587^2 = 21.040569
             p01 |-> <<10, 0, 4, 2, 5, 6, 1>>,      \* 3.169^2 = 10.042561
             p05 |-> <<4, 9, 6, 3, 9, 8, 4>>,       \* 2.228^2 =  4.963984
             p10 |-> <<3, 2, 8, 3, 3, 4, 4>>]       \* 1.812^2 =  3.283344
        standard ==
            [p001 |-> <<10, 8, 3, 0, 6, 8, 1>>,     \* 3.291^2 = 10.830681
             p01 |-> <<6, 6, 3, 5, 7, 7, 6>>,       \* 2.576^2 =  6.635776
             p05 |-> <<3, 8, 4, 1, 6, 0, 0>>,       \* 1.960^2 =  3.841600
             p10 |-> <<2, 7, 0, 6, 0, 2, 5>>]       \* 1.645^2 =  2.706025
        table == IF Sample.n - 2 <= 10 THEN conservative ELSE standard
    IN  AtLeast(Sample.tnum, Sample.tden, table[level])

\* the p-value (in thousandths) that the table of the bucket gives for |t|
TableP ==
    IF TAtLeast("p001") THEN 1
    ELSE IF TAtLeast("p01") THEN 10
    ELSE IF TAtLeast("p05") THEN 50
    ELSE IF TAtLeast("p10") THEN 100
    ELSE 200

\* C21 (as stated): for every input with at least 3 valid pairs and |r| < 1
\* the p_value is one of 0.001, 0.01, 0.05, 0.10, 0.20, the one chosen by
\* comparing |t| with the critical values of the bucket of df = n - 2.
C21_PValueAlwaysFromTable ==
    (req.op = "_calculate_correlation_with_significance"
        /\ Sample.n >= 3 /\ ~Sample.perfect)
    => /\ req.significance.p_value \in {1, 10, 50, 100, 200}
       /\ req.significance.p_value = TableP

\* C21 (amended): with at least 5 valid pairs (df >= 3) and |r| < 1 the
\* p_value is the one of 0.001, 0.01, 0.05, 0.10, 0.20 chosen by comparing
\* |t| with the critical values of the bucket of df = n - 2; with 3 or 4
\* valid pairs (df < 3) and |r| < 1 the p_value is 1.0 whatever |t| is.
C21_PValueFromTable ==
    (req.op = "_calculate_correlation_with_significance"
        /\ Sample.n >= 3 /\ ~Sample.perfect)
    => /\ req.significance.sample_size = Sample.n
       /\ IF Sample.n - 2 < 3
          THEN req.significance.p_value = 1000
          ELSE /\ req.significance.p_value \in {1, 10, 50, 100, 200}
               /\ req.significance.p_value = TableP

\* C21 witness: 13 valid pairs (df = 11, standard table) whose |t| lies
\* between 1.960 and 2.576 get p_value 0.05
C21_Witness ==
    /\ req.op = "_calculate_correlation_with_significance"
    /\ req.significance.sample_size >= 13
    /\ ~Sample.perfect
    /\ TAtLeast("p05") /\ ~TAtLeast("p01")
    /\ req.significance.p_value = 50

\* C28 (as stated): with at least 3 valid pairs, confidence_level
\* "very_high" is returned only when |r| = 1, significant = true only when
\* |r| = 1 or |t| is at or above the 0.01 critical value of the bucket, and
\* a |t| at or above the 0.05 critical value but below the 0.01 one yields
\* p_value 0.05, confidence_level "low" and significant = false.
C28_StrictTiers ==
    (req.op = "_calculate_correlation_with_significance" /\ Sample.n >= 3)
    => /\ req.significance.confidence_level = "very_high" => Sample.perfect
       /\ req.significance.significant => (Sample.perfect \/ TAtLeast("p01"))
       /\ (~Sample.perfect /\ TAtLeast("p05") /\ ~TAtLeast("p01"))
          => /\ req.significance.p_value = 50
             /\ req.significance.confidence_level = "low"
             /\ ~req.significance.significant

\* C28 (amended): with at least 3 valid pairs, confidence_level "very_high"
\* is returned only when |r| = 1 and significant = true only when |r| = 1 or
\* |t| is at or above the 0.01 critical value of the bucket; a |t| at or
\* above the 0.05 critical value but below the 0.01 one yields
\* confidence_level "low" and significant = false, with p_value 0.05 when
\* there are at least 5 valid pairs and p_value 1.0 when there are 3 or 4.
C28_StrictTiersFromFivePairs ==
    (req.op = "_calculate_correlation_with_significance" /\ Sample.n >= 3)
    => /\ req.significance.confidence_level = "very_high" => Sample.perfect
       /\ req.significance.significant => (Sample.perfect \/ TAtLeast("p01"))
       /\ (~Sample.perfect /\ TAtLeast("p05") /\ ~TAtLeast("p01"))
          => /\ req.significance.p_value = IF Sample.n >= 5 THEN 50 ELSE 1000
             /\ req.significance.confidence_level = "low"
             /\ ~req.significance.significant

\* C28 witness: between 5 and 12 valid pairs (conservative table) whose |t|
\* lies between 2.228 and 3.169 are answered p_value 0.05, "low", not
\* significant
C28_Witness ==
    /\ req.op = "_calculate_correlation_with_significance"
    /\ Sample.n >= 5 /\ Sample.n <= 12
    /\ ~Sample.perfect
    /\ TAtLeast("p05") /\ ~TAtLeast("p01")
    /\ req.significance.p_value = 50
    /\ req.significance.confidence_level = "low"
    /\ ~req.significance.significant

----------------------------------------------------------------------------
(* The weight trend while the window slides over the stored series         *)

\* the day of the last weigh-in: today, or 24 or 25 days ago (a 30-day
\* window then holds 7 or 6 points of the series, and one point less on
\* the next day)
WindowEndDays == {0, 0 - 24, 0 - 25}

InitWindow ==
    /\ InitCacheVars /\ InitTaskVars /\ InitRawTables
    /\ \E n \in (MaxPoints - 1)..MaxPoints, sh \in Shapes, e \in WindowEndDays :
          bodyweight_log = [u \in Users |-> IF u = "alice" THEN MkSeries(n, sh, e) ELSE <<>>]
    /\ profile = [u \in Users |-> [macro_days |-> 21, performance_days |-> 21]]

NextWindow ==
    \/ \E u \in Users, w \in Windows : CalculateWeightTrends(u, w)
    \/ Tick
    \/ AdvanceDay

SpecWindow == InitWindow /\ [][NextWindow]_vars

\* the number of stored weigh-ins of u dated within the last w days
PointsInWindow(u, w) ==
    Cardinality({i \in 1..Len(bodyweight_log[u]) :
                    bodyweight_log[u][i].date >= (now \div 24) - w})

\* C22 (as stated): calculate_weight_trends(user, w) returns no report
\* whenever the weight series currently in the window has fewer than 7
\* points, in every state of the cache.
C22_NoneBelowSeven ==
    [][\A u \in Users, w \in Windows :
          (CalculateWeightTrends(u, w) /\ PointsInWindow(u, w) < 7)
          => req'.ret.none]_vars

\* C22 (amended): with fewer than 7 points in the window,
\* calculate_weight_trends(user, w) returns no report and stores nothing
\* when get_cached_analysis(user, "weight_trends", w) is a miss; when it is
\* a hit, the call returns the report of the cached entry.
C22_NoneBelowSevenOnMiss ==
    [][\A u \in Users, w \in Windows :
          (CalculateWeightTrends(u, w) /\ PointsInWindow(u, w) < 7)
          => LET cached == get_cached_analysis(analytics_cache, now, u, "weight_trends", w)
             IN  /\ analytics_cache' = analytics_cache
                 /\ IF cached.none
                    THEN req'.ret.none
                    ELSE /\ ~req'.ret.none
                         /\ req'.ret.report.data_points = cached.result_data.data_points
                         /\ req'.ret.report.start_date = cached.result_data.start_date
                         /\ req'.ret.report.data_points >= 7]_vars

\* C22 witness: a call that finds nothing in the cache and 6 points in the
\* window, and returns no report
C22_Witness ==
    /\ req.op = "calculate_weight_trends"
    /\ req.ret.none
    /\ req.calls = <<Call("get_cached_analysis", req.user), Call("_get_weight_data", req.user)>>
    /\ PointsInWindow(req.user, req.days) = 6
    /\ Len(bodyweight_log[req.user]) > 6
    /\ analytics_cache = {}

----------------------------------------------------------------------------
(* The stored result of a task id across its runs (SpecTasks)              *)

\* C23: get_task_result(id) returns None at every moment at which the task
\* with that id is running (submitted and not yet finished), for every
\* sequence of earlier submit, status, result and cleanup calls.
C23_NoResultWhileRunning ==
    [][\A id \in TaskIds :
          (GetTaskResult(id) /\ active_tasks[id] # 0
              /\ futures[active_tasks[id]].state \in {"pending", "running"})
          => taskResp'.value = "None"]_vars

----------------------------------------------------------------------------
(* POST /weights and calculate_weight_trends, statement by statement, on   *)
(* concurrent request threads                                              *)

\* add_weight, first statement: queries.insert_weight commits the row
AddWeightInsert(entry, u) ==
    /\ inflight.writer.at = "idle"
    /\ WritesSoFar < MaxWrites
    /\ weights' = Append(weights, [user_email |-> u, date |-> entry.date,
                                   weight |-> entry.weight])
    /\ inflight' = [inflight EXCEPT !.writer =
                       [at |-> "invalidate", user |-> u, date |-> entry.date]]
    /\ UNCHANGED <<foods, food_seq, exercise_logs, workouts, bodyweight_log, profile,
                   daily_macros, performance_metrics, sweep, prediction_accuracy, req,
                   cacheVars, taskVars>>

\* add_weight, second statement: AnalyticsDB.invalidate_user_cache, and the
\* response
AddWeightInvalidate ==
    /\ inflight.writer.at = "invalidate"
    /\ analytics_cache' = invalidate_user_cache(analytics_cache, inflight.writer.user,
                                                TypeList(WeightInvalidates))
    /\ inflight' = [inflight EXCEPT !.writer.at = "returned"]
    /\ req' = [op |-> "add_weight", seq |-> 1 - req.seq, user |-> inflight.writer.user,
               calls |-> <<Call("insert_weight", inflight.writer.user),
                           Call("invalidate_user_cache", inflight.writer.user)>>]
    /\ UNCHANGED <<foods, food_seq, weights, exercise_logs, workouts, bodyweight_log,
                   profile, daily_macros, performance_metrics, sweep, prediction_accuracy,
                   now, resp, taskVars>>

\* calculate_weight_trends, first statement: the cache is read; a hit is
\* returned at once
TrendsGet(c, u, days) ==
    LET cached_result == get_cached_analysis(analytics_cache, now, u, "weight_trends", days)
        after_write == inflight.writer.at = "returned"
    IN  /\ inflight.calls[c].at = "idle"
        /\ IF ~cached_result.none
           THEN /\ req' = [op |-> "calculate_weight_trends", seq |-> 1 - req.seq,
                           user |-> u, days |-> days,
                           ret |-> Report(TrendAnalysis(cached_result.result_data)),
                           calls |-> <<Call("get_cached_analysis", u)>>,
                           after_write |-> after_write]
                /\ UNCHANGED inflight
           ELSE /\ inflight' = [inflight EXCEPT !.calls[c] =
                                   [at |-> "fetch", user |-> u, days |-> days,
                                    data |-> <<>>, after_write |-> after_write]]
                /\ UNCHANGED req
        /\ UNCHANGED <<foods, food_seq, weights, exercise_logs, workouts, bodyweight_log,
                       profile, daily_macros, performance_metrics, sweep,
                       prediction_accuracy, cacheVars, taskVars>>

\* calculate_weight_trends after a miss: the series is fetched; fewer than 7
\* points end the call with None
TrendsFetch(c) ==
    LET call == inflight.calls[c]
        weight_data == _get_weight_data(call.user, call.days, now)
    IN  /\ call.at = "fetch"
        /\ IF Len(weight_data) < MinTrendPoints
           THEN /\ req' = [op |-> "calculate_weight_trends", seq |-> 1 - req.seq,
                           user |-> call.user, days |-> call.days, ret |-> NoReport,
                           calls |-> <<Call("get_cached_analysis", call.user),
                                       Call("_get_weight_data", call.user)>>,
                           after_write |-> call.after_write]
                /\ inflight' = [inflight EXCEPT !.calls[c] = IdleCall]
           ELSE /\ inflight' = [inflight EXCEPT !.calls[c].at = "store",
                                                !.calls[c].data = weight_data]
                /\ UNCHANGED req
        /\ UNCHANGED <<foods, food_seq, weights, exercise_logs, workouts, bodyweight_log,
                       profile, daily_macros, performance_metrics, sweep,
                       prediction_accuracy, cacheVars, taskVars>>

\* calculate_weight_trends, the rest: the statistics of the fetched series
\* are stored in the cache and returned
TrendsStore(c) ==
    LET call == inflight.calls[c]
        result == weight_trend_result(call.data, call.days)
    IN  /\ call.at = "store"
        /\ analytics_cache' = cache_analysis_result(analytics_cache, now, call.user,
                                                    "weight_trends", call.days, result,
                                                    result.confidence_level,
                                                    DefaultCacheHours)
        /\ req' = [op |-> "calculate_weight_trends", seq |-> 1 - req.seq,
                   user |-> call.user, days |-> call.days, ret |-> Report(result),
                   calls |-> <<Call("get_cached_analysis", call.user),
                               Call("_get_weight_data", call.user),
                               Call("cache_analysis_result", call.user)>>,
                   after_write |-> call.after_write]
        /\ inflight' = [inflight EXCEPT !.calls[c] = IdleCall]
        /\ UNCHANGED <<foods, food_seq, weights, exercise_logs, workouts, bodyweight_log,
                       profile, daily_macros, performance_metrics, sweep,
                       prediction_accuracy, now, resp, taskVars>>

\* the stored series ends yesterday; the weigh-in posted is dated today
InitRace ==
    /\ InitCacheVars /\ InitTaskVars /\ InitRawTables
    /\ \E n \in (MaxPoints - 2)..MaxPoints, sh \in Shapes :
          bodyweight_log = [u \in Users |->
                               IF u = "alice" THEN MkSeries(n, sh, 0 - 1) ELSE <<>>]
    /\ profile = [u \in Users |-> [macro_days |-> 21, performance_days |-> 21]]

NextRace ==
    \/ \E u \in Users, e \in WeightInputs : AddWeightInsert(e, u)
    \/ AddWeightInvalidate
    \/ \E c \in Callers, u \in Users, w \in Windows : TrendsGet(c, u, w)
    \/ \E c \in Callers : TrendsFetch(c)
    \/ \E c \in Callers : TrendsStore(c)

SpecRace == InitRace /\ [][NextRace]_vars

\* C24: no stale trend survives a write: under every interleaving of an
\* add-weight request with concurrent calculate_weight_trends calls, a
\* calculate_weight_trends(user, w) call that starts after the request's
\* invalidation has returned yields a report computed from a series that
\* contains the written point (the written point is dated after every
\* stored one, so such a series ends on its date).
C24_NoStaleTrendAfterWrite ==
    (/\ req.op = "calculate_weight_trends"
     /\ req.after_write
     /\ req.user = inflight.writer.user
     /\ ~req.ret.none)
    => /\ req.ret.report.start_date <= inflight.writer.date
       /\ req.ret.report.end_date >= inflight.writer.date

----------------------------------------------------------------------------
(* correlate_nutrition_performance, statement by statement, while the      *)
(* series change                                                           *)

\* correlate_nutrition_performance, first statement: the validation (which
\* fetches and aligns the series); an invalid answer ends the call
CorrelateValidate(c, u, days) ==
    LET validation_result == _validate_correlation_data_requirements(u, days, now)
        out == insufficient_data(validation_result)
    IN  /\ inflight.calls[c].at = "idle"
        /\ IF ~validation_result.valid
           THEN /\ req' = [op |-> "correlate_nutrition_performance", seq |-> 1 - req.seq,
                           user |-> u, days |-> days, ret |-> out.ret,
                           computed |-> out.computed]
                /\ UNCHANGED inflight
           ELSE /\ inflight' = [inflight EXCEPT !.calls[c] =
                                   [at |-> "correlate", user |-> u, days |-> days,
                                    data |-> <<>>, after_write |-> FALSE]]
                /\ UNCHANGED req
        /\ UNCHANGED <<foods, food_seq, weights, exercise_logs, workouts, bodyweight_log,
                       profile, daily_macros, performance_metrics, sweep,
                       prediction_accuracy, cacheVars, taskVars>>

\* correlate_nutrition_performance, the rest: the second fetch, the
\* alignment and the correlations
CorrelateFetch(c) ==
    LET call == inflight.calls[c]
        out == correlations_of(call.user, call.days, now)
    IN  /\ call.at = "correlate"
        /\ req' = [op |-> "correlate_nutrition_performance", seq |-> 1 - req.seq,
                   user |-> call.user, days |-> call.days, ret |-> out.ret,
                   computed |-> out.computed]
        /\ inflight' = [inflight EXCEPT !.calls[c] = IdleCall]
        /\ UNCHANGED <<foods, food_seq, weights, exercise_logs, workouts, bodyweight_log,
                       profile, daily_macros, performance_metrics, sweep,
                       prediction_accuracy, cacheVars, taskVars>>

\* DELETE /foods/{food_id} of the food that the meals of u's last day with
\* meals consist of: the join of meals, meal_items and foods has no row of
\* that day any more
DeleteFoodOfLastDay(u) ==
    /\ Len(daily_macros[u]) >= MaxSeries - 1
    /\ daily_macros' = [daily_macros EXCEPT ![u] = SubSeq(@, 1, Len(@) - 1)]
    /\ req' = [op |-> "delete_food", seq |-> 1 - req.seq, user |-> u,
               calls |-> <<Call("delete_food", u)>>]
    /\ UNCHANGED <<foods, food_seq, weights, exercise_logs, workouts, bodyweight_log,
                   profile, performance_metrics, sweep, prediction_accuracy, inflight,
                   cacheVars, taskVars>>

\* the oldest of the macro days is the first day of the 30-day window (it
\* leaves the window at midnight), or the series ends today
RefetchEndDays == {0, 0 - 17}

InitRefetch ==
    /\ InitCacheVars /\ InitTaskVars /\ InitWriteTables
    /\ bodyweight_log = DefaultLog
    /\ profile = [u \in Users |-> [macro_days |-> 21, performance_days |-> 21]]
    /\ \E n \in SeriesLengths, sh \in MacroShapes, e \in RefetchEndDays :
          daily_macros = [u \in Users |->
                             IF u = "alice" THEN MkMacroSeries(n, sh, e) ELSE <<>>]
    /\ \E r \in {"null", "all"} :
          performance_metrics = [u \in Users |->
                                    IF u = "alice"
                                    THEN MkPerfSeries(MaxSeries + 17, "rising", r, 0)
                                    ELSE <<>>]

NextRefetch ==
    \/ \E u \in Users, w \in Windows : CorrelateValidate("c1", u, w)
    \/ CorrelateFetch("c1")
    \/ \E u \in Users : DeleteFoodOfLastDay(u)
    \/ Tick

SpecRefetch == InitRefetch /\ [][NextRefetch]_vars

\* C25: every non-error result of correlate_nutrition_performance reports
\* metadata.data_points >= 10, macro_data_points >= 14 and
\* performance_data_points >= 14, also when the series change between the
\* fetch of the validation and the second fetch.
C25_ReportedCountsMeetMinimums ==
    (req.op = "correlate_nutrition_performance" /\ "metadata" \in DOMAIN req.ret)
    => /\ req.ret.metadata.data_points >= 10
       /\ req.ret.metadata.macro_data_points >= 14
       /\ req.ret.metadata.performance_data_points >= 14

----------------------------------------------------------------------------
(* The background endpoints: submission, status and result of a task, the  *)
(* task id being a text built from the e-mail address of the submitter     *)

\* e-mail addresses as texts, one character per element: "a@x.co" and
\* "a@x.com"
Emails ==
    {<<"a", "@", "x", ".", "c", "o">>, <<"a", "@", "x", ".", "c", "o", "m">>}

\* the types the endpoint accepts (two of the three in the model)
valid_types == {"long_term_trends", "performance_modeling"}

\* a type outside valid_types
OtherTypes == {"weight_trends"}

Hours == StartHour..MaxNow

\* int(time.time()) at hour t of the model's clock
int_time(t) == t * 3600

\* str.startswith
startswith(text, prefix) ==
    /\ Len(prefix) <= Len(text)
    /\ SubSeq(text, 1, Len(prefix)) = prefix

\* variant: a task id without the clock second
task_id_NoSecond(user_email, analysis_type, t) ==
    user_email \o <<"_", analysis_type>>

\* f"{user_email}_{analysis_type}_{int(time.time())}": the type and the
\* digits of the second are one element each
task_id(user_email, analysis_type, t) ==
    user_email \o <<"_", analysis_type, "_", ToString(int_time(t))>>

\* the type the users of the model submit
SubmittedTypes == {"long_term_trends"}

\* the request thread that serves the submissions
Submitters == {"t1"}

\* the task ids a submission can create
ServiceIds == {task_id(u, T, t) : u \in Emails, T \in SubmittedTypes, t \in Hours}

\* variant: the ownership test compares the whole prefix up to the type
belongs_to_Exact(id, user_email) ==
    \E T \in valid_types, t \in Hours : id = task_id(user_email, T, t)

\* `task_id.startswith(user_email)`
belongs_to(id, user_email) == startswith(id, user_email)

\* get_background_analysis_status: the response to user_email
get_background_analysis_status(id, user_email) ==
    IF ~belongs_to(id, user_email)
    THEN [code |-> 403, error |-> "access_denied"]
    ELSE IF get_task_status(id).status = "not_found"
         THEN [code |-> 404, error |-> "task_not_found"]
         ELSE [code |-> 200, task_id |-> id, body |-> get_task_status(id)]

\* get_background_analysis_result: the response to user_email
get_background_analysis_result(id, user_email) ==
    IF ~belongs_to(id, user_email)
    THEN [code |-> 403, error |-> "access_denied"]
    ELSE LET status == get_task_status(id)
         IN  CASE status.status = "not_found" ->
                      [code |-> 404, error |-> "task_not_found"]
               [] status.status = "running" ->
                      [code |-> 202, error |-> "task_running"]
               [] status.status = "error" ->
                      [code |-> 500, error |-> "task_error", task_error |-> status.error]
               [] OTHER ->
                      \* get_task_status has just stored the result
                      IF status.result = "None"
                      THEN [code |-> 404, error |-> "result_not_found"]
                      ELSE [code |-> 200, task_id |-> id, result |-> status.result]

\* get_task_status stores the result of a completed task
StoreResult(id) ==
    IF get_task_status(id).status = "completed"
    THEN [task_results EXCEPT ![id] = get_task_status(id).result]
    ELSE task_results

\* POST /analytics/background/{analysis_type} with a type outside valid_types
SubmitInvalidType(u, T) ==
    /\ T \notin valid_types
    /\ taskResp' = [op |-> "submit_endpoint", user |-> u,
                    answer |-> [code |-> 400, error |-> "invalid_analysis_type"]]
    /\ UNCHANGED <<futures, active_tasks, task_results, lock, pc, ret, cacheVars, svcVars>>

\* POST /analytics/background/{analysis_type}: submit_expensive_analysis
\* builds the task id and enters submit_task
SubmitBackgroundAnalysis(t, u, T) ==
    /\ T \in valid_types
    /\ SubmitAcquire(t, task_id(u, T, now))

\* the response of the submission thread t has finished: 409 task_conflict on
\* the RuntimeError, else the task id
submit_response(t) ==
    IF ret[t].val = "False"
    THEN [code |-> 409, error |-> "task_conflict"]
    ELSE [code |-> 200, task_id |-> ret[t].id, status |-> "submitted"]

\* GET /analytics/background/status/{task_id}
GetBackgroundAnalysisStatus(u, id) ==
    /\ belongs_to(id, u) => lock = "free"
    /\ taskResp' = [op |-> "status_endpoint", user |-> u, id |-> id,
                    answer |-> get_background_analysis_status(id, u)]
    /\ task_results' = IF belongs_to(id, u) THEN StoreResult(id) ELSE task_results
    /\ UNCHANGED <<futures, active_tasks, lock, pc, ret, cacheVars, svcVars>>

\* GET /analytics/background/result/{task_id}
GetBackgroundAnalysisResult(u, id) ==
    /\ belongs_to(id, u) => lock = "free"
    /\ taskResp' = [op |-> "result_endpoint", user |-> u, id |-> id,
                    answer |-> get_background_analysis_result(id, u)]
    /\ task_results' = IF belongs_to(id, u) THEN StoreResult(id) ELSE task_results
    /\ UNCHANGED <<futures, active_tasks, lock, pc, ret, cacheVars, svcVars>>

InitEndpoints ==
    /\ InitCacheVars /\ InitSvcVars
    /\ sweep = SweepStart
    /\ inflight = NoRequests
    /\ futures = <<>>
    /\ active_tasks = [id \in ServiceIds |-> 0]
    /\ task_results = [id \in ServiceIds |-> "None"]
    /\ lock = "free"
    /\ LET id == CHOOSE x \in ServiceIds : TRUE
       IN  /\ pc = [t \in Threads |-> [at |-> "idle", id |-> id]]
           /\ ret = [t \in Threads |-> [id |-> id, val |-> "-"]]
    /\ taskResp = [op |-> "none"]

NextEndpoints ==
    \/ \E u \in Emails, T \in OtherTypes : SubmitInvalidType(u, T)
    \/ \E t \in Submitters, u \in Emails, T \in SubmittedTypes :
          SubmitBackgroundAnalysis(t, u, T)
    \/ \E t \in Submitters : SubmitCheck(t)
    \/ \E t \in Submitters : SubmitInsert(t)
    \/ WorkerStart
    \/ \E i \in FutureIndexes : TaskReturn(i, "r1")
    \/ \E i \in FutureIndexes, m \in ErrorMessages : TaskRaise(i, m)
    \/ \E u \in Emails, id \in ServiceIds : GetBackgroundAnalysisStatus(u, id)
    \/ \E u \in Emails, id \in ServiceIds : GetBackgroundAnalysisResult(u, id)
    \/ Tick

SpecEndpoints == InitEndpoints /\ [][NextEndpoints]_vars

\* the user whose submission creates the task id
SubmitterOf(id) ==
    CHOOSE u \in Emails : \E T \in valid_types, t \in Hours : id = task_id(u, T, t)

\* C26: a request of the status or the result endpoint by user A for a task
\* id created by the submission of another user B is answered with 403,
\* also when the e-mail address of A is a prefix of that of B.
C26_OnlySubmitterIsAnswered ==
    (/\ taskResp.op \in {"status_endpoint", "result_endpoint"}
     /\ \E i \in FutureIndexes : futures[i].task_id = taskResp.id
     /\ SubmitterOf(taskResp.id) # taskResp.user)
    => taskResp.answer.code = 403

----------------------------------------------------------------------------
(* Submissions of the same user and type in the same and in different      *)
(* clock seconds                                                           *)

NextSubmissions ==
    \/ \E u \in Emails, T \in OtherTypes : SubmitInvalidType(u, T)
    \/ \E t \in Threads, u \in Emails, T \in SubmittedTypes :
          SubmitBackgroundAnalysis(t, u, T)
    \/ \E t \in Threads : SubmitCheck(t)
    \/ \E t \in Threads : SubmitInsert(t)
    \/ WorkerStart
    \/ \E i \in FutureIndexes : TaskReturn(i, "r1")
    \/ \E i \in FutureIndexes, m \in ErrorMessages : TaskRaise(i, m)
    \/ Tick

SpecSubmissions == InitEndpoints /\ [][NextSubmissions]_vars

\* an accepted submission of user u, type T and clock hour h is not finished
UnfinishedSubmission(u, T, h) ==
    \E i \in FutureIndexes :
        futures[i].task_id = task_id(u, T, h) /\ ~Done(futures[i])

\* C29: a submission carries the clock second of its arrival; it is rejected
\* with task_conflict exactly when an accepted submission of the same user,
\* type and clock second is not finished; submissions that differ in the
\* clock second have different task ids.
C29_ConflictOnlyInSameSecond ==
    [][/\ \A t \in Threads :
             (pc[t].at = "idle" /\ pc'[t].at = "check")
             => \E u \in Emails, T \in valid_types : pc'[t].id = task_id(u, T, now)
       /\ \A t \in Threads, u \in Emails, T \in valid_types, h \in Hours :
             (pc[t].at = "check" /\ pc'[t].at # "check" /\ pc[t].id = task_id(u, T, h))
             => ((pc'[t].at = "idle" /\ ret'[t].val = "False")
                     <=> UnfinishedSubmission(u, T, h))
       /\ \A u \in Emails, T \in valid_types, g \in Hours, h \in Hours :
             g # h => task_id(u, T, g) # task_id(u, T, h)]_vars

\* C29 witness: a submission was rejected, and two submissions of one user
\* and type made in different clock seconds run at the same time
C29_Witness ==
    /\ \E t \in Threads : ret[t].val = "False"
    /\ \E i \in FutureIndexes, j \in FutureIndexes, u \in Emails, T \in valid_types,
          g \in Hours, h \in Hours :
          /\ g # h
          /\ futures[i].task_id = task_id(u, T, g)
          /\ futures[j].task_id = task_id(u, T, h)
          /\ futures[i].state = "running"
          /\ futures[j].state = "running"

----------------------------------------------------------------------------
(* DELETE /analytics/cache                                                 *)

\* `analysis_types or []`
or_empty_list(analysis_types) ==
    IF Truthy(analysis_types) THEN analysis_types ELSE TypeList({})

\* clear_user_cache: the endpoint passes `analysis_types or []`
ClearUserCache(u, at) ==
    /\ analytics_cache' = invalidate_user_cache(analytics_cache, u, or_empty_list(at))
    /\ resp' = [op |-> "clear_user_cache", user |-> u, types |-> or_empty_list(at),
                cleared_entries |->
                    Cardinality(InvalidatedRows(analytics_cache, u, or_empty_list(at)))]
    /\ UNCHANGED <<now, taskVars, svcVars>>

InitClear == InitCacheVars /\ InitTaskVars /\ InitSvcVars

NextClear ==
    \/ \E u \in Users, T \in CacheTypes, w \in Windows, d \in Payloads, h \in TtlHours :
          CachePut(u, T, w, d, 50, h)
    \/ \E u \in Users, S \in SUBSET CacheTypes : ClearUserCache(u, TypeList(S))
    \/ \E u \in Users : ClearUserCache(u, NoTypes)
    \/ \E u \in Users : CacheInvalidate(u, TypeList({}))
    \/ \E u \in Users : CacheInvalidate(u, NoTypes)
    \/ Tick

SpecClear == InitClear /\ [][NextClear]_vars

\* C27: invalidate_user_cache with an empty list of types, called directly
\* or by DELETE /analytics/cache without types, deletes every entry of the
\* user, as the call with None does, and keeps the entries of other users.
C27_EmptyListClearsUser ==
    [][\A u \in Users :
          (/\ resp'.op \in {"invalidate", "clear_user_cache"}
           /\ resp'.user = u
           /\ resp'.types = TypeList({}))
          => /\ analytics_cache' = {r \in analytics_cache : r.user_email # u}
             /\ analytics_cache' = invalidate_user_cache(analytics_cache, u, NoTypes)]_vars

\* C27 witness: DELETE /analytics/cache without types has removed entries of
\* the user while an entry of another user is stored
C27_Witness ==
    /\ resp.op = "clear_user_cache"
    /\ resp.types = TypeList({})
    /\ resp.cleared_entries >= 1
    /\ \E r \in analytics_cache : r.user_email # resp.user

----------------------------------------------------------------------------
(* The long-term trend analysis of the background tasks and the cache row  *)
(* it leaves behind                                                        *)

\* the periods of _long_term_trend_analysis, in the order of its calls
LongTermPeriods == <<30, 60, 90, 180>>

\* variant: every result can be encoded
json_encodable_Always(results) == TRUE

\* json.dumps raises TypeError on a TrendAnalysis, which is a model object
\* and not a dict; None and the empty dict are encoded
json_encodable(results) ==
    /\ \A k \in DOMAIN results.weight_trends : results.weight_trends[k].none
    /\ \A k \in DOMAIN results.macro_trends : results.macro_trends[k] = <<>>

\* cache_analysis_result with its `except Exception: return False`
cache_analysis_result_or_false(rows, t, u, T, w, result_data, confidence, cache_hours) ==
    IF json_encodable(result_data)
    THEN cache_analysis_result(rows, t, u, T, w, result_data, confidence, cache_hours)
    ELSE rows

\* the calculate_weight_trends call of each period. A call reads and writes
\* only the cache row of its own period, so every call sees, for its key,
\* the rows the analysis started with
weight_trends_over(rows, t, u) ==
    [k \in DOMAIN LongTermPeriods |-> calculate_weight_trends(rows, t, u, LongTermPeriods[k])]

\* the analyze_macro_patterns call of each period
macro_trends_over(rows, t, u) ==
    [k \in DOMAIN LongTermPeriods |-> analyze_macro_patterns(rows, t, u, LongTermPeriods[k])]

\* the rows after calls that have each replaced at most the row of their
\* own key: caches are the tables the single calls leave
rows_after(rows, caches) ==
    {r \in rows : \A c \in caches : r \in c} \cup UNION {c \ rows : c \in caches}

\* _analyze_trend_consistency: direction, rate and confidence of the reports
\* of the periods up to `days` (its calls find the rows the first calls left)
_analyze_trend_consistency(weight_reports, macro_reports, days) ==
    [weight_trend_consistency |->
         [k \in DOMAIN weight_reports |->
             IF LongTermPeriods[k] <= days /\ ~weight_reports[k].none
             THEN [direction |-> weight_reports[k].report.trend_direction,
                   rate |-> weight_reports[k].report.rate_of_change,
                   confidence |-> weight_reports[k].report.confidence_level]
             ELSE NoneVal],
     macro_trend_consistency |->
         [k \in DOMAIN macro_reports |->
             IF LongTermPeriods[k] <= days
             THEN [m \in DOMAIN macro_reports[k] |->
                      [direction |-> macro_reports[k][m].trend_direction,
                       rate |-> macro_reports[k][m].rate_of_change,
                       confidence |-> macro_reports[k][m].confidence_level]]
             ELSE <<>>]]

\* _detect_seasonal_patterns: an error below 90 days, else the monthly
\* averages of the weights
_detect_seasonal_patterns(u, days, t) ==
    IF days < 90
    THEN [error |-> "Need at least 90 days for seasonal analysis"]
    ELSE [monthly_weight_patterns |-> Len(_get_weight_data(u, days, t)),
          analysis_period |-> days]

\* the results dict and the cache, from what the calls of the periods
\* returned and left
long_term_results(rows, t, u, days, weight_calls, macro_calls) ==
    LET weight_reports == [k \in DOMAIN LongTermPeriods |-> weight_calls[k].ret]
        macro_reports == [k \in DOMAIN LongTermPeriods |-> macro_calls[k].ret]
        results ==
            [weight_trends |-> weight_reports,
             macro_trends |-> macro_reports,
             trend_consistency |->
                 _analyze_trend_consistency(weight_reports, macro_reports, days),
             seasonal_patterns |-> _detect_seasonal_patterns(u, days, t)]
        caches == {weight_calls[k].cache : k \in DOMAIN LongTermPeriods}
                      \cup {macro_calls[k].cache : k \in DOMAIN LongTermPeriods}
    IN  [ret |-> results,
         cache |-> cache_analysis_result_or_false(rows_after(rows, caches), t, u,
                                                  "long_term_trends", days, results, 90, 72)]

\* what _long_term_trend_analysis returns and the cache it leaves behind
\* (the calls of the periods are made once, their values are shared)
_long_term_trend_analysis(rows, t, u, days) ==
    CHOOSE out \in {long_term_results(rows, t, u, days, weight_calls, macro_calls) :
                       weight_calls \in {weight_trends_over(rows, t, u)},
                       macro_calls \in {macro_trends_over(rows, t, u)}} : TRUE

LongTermTrendAnalysis(u, days) ==
    \E out \in {_long_term_trend_analysis(analytics_cache, now, u, days)} :
        /\ analytics_cache' = out.cache
        /\ req' = [op |-> "_long_term_trend_analysis", seq |-> 1 - req.seq, user |-> u,
                   days |-> days, results |-> out.ret]
        /\ UNCHANGED <<now, resp, rawVars, taskVars>>

\* the windows of the submissions: the default of the endpoint and that of
\* the function
LongTermWindows == {90, 180}

InitLongTerm ==
    /\ InitCacheVars /\ InitTaskVars /\ InitWriteTables
    /\ profile = [u \in Users |-> [macro_days |-> 21, performance_days |-> 21]]
    /\ performance_metrics = [u \in Users |-> <<>>]
    /\ \E n \in {MinTrendPoints - 1, MaxPoints} :
          bodyweight_log = [u \in Users |->
                               IF u = "alice" THEN MkSeries(n, "rising", 0) ELSE <<>>]
    /\ \E series \in {<<>>, MkMacroSeries(MaxSeries, "rising", 0)} :
          daily_macros = [u \in Users |-> IF u = "alice" THEN series ELSE <<>>]

NextLongTerm ==
    \/ \E u \in Users, w \in LongTermWindows : LongTermTrendAnalysis(u, w)
    \/ \E u \in Users : ClearUserCache(u, NoTypes)
    \/ Tick

SpecLongTerm == InitLongTerm /\ [][NextLongTerm]_vars

\* get_cached_analysis of "long_term_trends" is a hit with these results
LongTermHit(rows, t, u, w, results) ==
    LET hit == get_cached_analysis(rows, t, u, "long_term_trends", w)
    IN  ~hit.none /\ hit.result_data = results

\* C30: when _long_term_trend_analysis has returned for a user and a window,
\* get_cached_analysis of "long_term_trends" for that user and window is a
\* hit with the returned result, also when the result holds a trend report;
\* it stays a hit while no row of the user is deleted (72 hours do not pass
\* within the hours of the model).
C30_LongTermResultIsCached ==
    [][/\ (req'.op = "_long_term_trend_analysis" /\ req' # req)
          => LongTermHit(analytics_cache', now', req'.user, req'.days, req'.results)
       /\ (/\ req.op = "_long_term_trend_analysis"
           /\ req' = req
           /\ LongTermHit(analytics_cache, now, req.user, req.days, req.results)
           /\ \A r \in analytics_cache :
                 r.user_email = req.user => r \in analytics_cache')
          => LongTermHit(analytics_cache', now', req.user, req.days, req.results)]_vars

====
